---- MODULE Spec2Model ----
(***************************************************************************)
(* Model of the snake simulation engine (internal/env/game.go) and of the  *)
(* drivers that step it.  A Game is a record; the *rand.Rand each game     *)
(* owns is an object on a heap of random sources (rngHeap) and the game    *)
(* holds its index, so that sharing or not sharing a source is visible.    *)
(***************************************************************************)
EXTENDS Integers, Sequences, FiniteSets, TLC

VARIABLES
    games,      \* the Game objects constructed so far (games[1] is the game under test)
    rngHeap,    \* states of the allocated *rand.Rand sources, indexed by Game.rng
    seed,       \* the seed argument the driver passed to NewGame and passes to Stats
    last,       \* << >> before the first call of Step, else <<[action, before, rngBefore]>>
    cfg,        \* the Evaluator's configuration (<< >> where no evaluator is involved)
    stats,      \* the EpisodeStats value the evaluator is working on
    pc,         \* the position of the driver in its code
    replay,     \* the Replay object being recorded or played back (<< >> if none)
    mlps,       \* the MLP objects allocated so far
    genomes,    \* the backing arrays of the genome slices allocated so far
    agents,     \* the Agent objects allocated so far; a *Agent is an index, 0 is nil
    arrays,     \* the backing arrays of the []*Agent slices allocated so far
    main,       \* the Population and the locals of the training entry point
    workers     \* the goroutines started by the evaluation pass under way

vars == <<games, rngHeap, seed, last, cfg, stats, pc, replay, mlps, genomes,
          agents, arrays, main, workers>>

\* the variables of the training loop
trainVars == <<agents, arrays, main, workers>>

NoTraining == agents = << >> /\ arrays = << >> /\ main = << >> /\ workers = << >>

\* the variables of the evaluator, which the drivers of a bare game leave alone
evalVars == <<cfg, stats, pc, replay, mlps, genomes, trainVars>>

NoEvaluator ==
    /\ cfg = << >> /\ stats = << >> /\ pc = "game" /\ replay = << >>
    /\ mlps = << >> /\ genomes = << >>
    /\ NoTraining

----------------------------------------------------------------------------
(* Bounds of the model *)

MaxWidth == 3
MaxHeight == 2
MaxStartLength == 3
MaxTickCap == 8
MaxSeed == 3

Widths == 2..MaxWidth
Heights == 2..MaxHeight
StartLengths == 1..MaxStartLength
TickCaps == {1, 3, MaxTickCap}
StallWindows == {2, MaxTickCap, MaxTickCap + 1}
Seeds == 0..MaxSeed

----------------------------------------------------------------------------
(* Enumerations of game.go and stats.go *)

DirUp == 0
DirRight == 1
DirDown == 2
DirLeft == 3
Directions == {DirUp, DirRight, DirDown, DirLeft}

ActionStraight == 0
ActionLeft == 1
ActionRight == 2
Actions == {ActionStraight, ActionLeft, ActionRight}

DeathNone == 0
DeathWall == 1
DeathSelf == 2
DeathStall == 3
DeathTimeout == 4

Point(x, y) == [X |-> x, Y |-> y]

\* float64 values are kept as fixed-point numbers in hundredths: Float64(n) is
\* the conversion float64(n) of an integer, FMul the product of two float64
Float64(n) == n * 100

\* (a * b) / 100, computed without forming the product a * b
FMul(a, b) == ((a \div 100) * b) + (((a % 100) * b) \div 100)

\* a / float64(n) for an integer n
FDivInt(a, n) == a \div n

\* the integer square root of x, searched between lo and hi
RECURSIVE ISqrtIn(_, _, _)
ISqrtIn(x, lo, hi) ==
    IF lo >= hi THEN lo
    ELSE LET mid == (lo + hi + 1) \div 2
         IN  IF mid * mid <= x THEN ISqrtIn(x, mid, hi) ELSE ISqrtIn(x, lo, mid - 1)

\* math.Sqrt on hundredths: the greatest r = 10 * q + d with r * r <= 100 * x
FSqrt(x) ==
    LET q == ISqrtIn(x, 0, IF x < 46340 THEN x ELSE 46340)
        fits(d) == (20 * q * d) + (d * d) <= 100 * (x - (q * q))
    IN  (10 * q) + (CHOOSE d \in 0..9 : fits(d) /\ (d = 9 \/ ~fits(d + 1)))

----------------------------------------------------------------------------
(* math/rand: a source is a deterministic generator whose whole output     *)
(* stream is fixed by its seed.  The generator is abstracted to a linear   *)
(* congruential one over a small modulus: what is kept is that a draw is   *)
(* a function of the source's state alone and advances that state; the     *)
(* particular values of Go's generator are not.                            *)

NewSource(sd) == sd % 31

RngNext(s) == (7 * s + 5) % 31

\* rng.Intn(n): advances the source and returns a value in 0..n-1
Intn(s, n) == [state |-> RngNext(s), value |-> RngNext(s) % n]

----------------------------------------------------------------------------
(* Pure helpers of Game *)

\* both turns rotating the same way
applyTurnSameWay(g, action) ==
    IF action = ActionLeft THEN (g.Dir + 1) % 4
    ELSE IF action = ActionRight THEN (g.Dir + 1) % 4
    ELSE g.Dir

applyTurn(g, action) ==
    IF action = ActionLeft THEN (g.Dir + 3) % 4
    ELSE IF action = ActionRight THEN (g.Dir + 1) % 4
    ELSE g.Dir

moveInDirection(p, dir) ==
    IF dir = DirUp THEN Point(p.X, p.Y - 1)
    ELSE IF dir = DirRight THEN Point(p.X + 1, p.Y)
    ELSE IF dir = DirDown THEN Point(p.X, p.Y + 1)
    ELSE IF dir = DirLeft THEN Point(p.X - 1, p.Y)
    ELSE p

Abs(n) == IF n < 0 THEN -n ELSE n

distanceToFruit(g) ==
    Float64(Abs(g.Snake[1].X - g.Fruit.X) + Abs(g.Snake[1].Y - g.Fruit.Y))

\* the bounds test off by one on the upper edges
OutOfGridOffByOne(g, p) == p.X < 0 \/ p.X > g.Width \/ p.Y < 0 \/ p.Y > g.Height

OutOfGrid(g, p) == p.X < 0 \/ p.X >= g.Width \/ p.Y < 0 \/ p.Y >= g.Height

\* the cells of the grid in the order of spawnFruit's nested loops (y outer, x inner)
GridCells(g) ==
    [i \in 1..(g.Width * g.Height) |-> Point((i - 1) % g.Width, (i - 1) \div g.Width)]

Occupied(g, p) == \E i \in 1..Len(g.Snake) : g.Snake[i] = p

EmptyCells(g) == SelectSeq(GridCells(g), LAMBDA p : ~Occupied(g, p))

\* spawnFruit: a uniformly drawn empty cell; nothing happens when no cell is empty
spawnFruit(g, heap) ==
    LET empty == EmptyCells(g)
    IN  IF Len(empty) > 0
        THEN LET draw == Intn(heap[g.rng], Len(empty))
             IN  [g    |-> [g EXCEPT !.Fruit = empty[draw.value + 1]],
                  heap |-> [heap EXCEPT ![g.rng] = draw.state]]
        ELSE [g |-> g, heap |-> heap]

----------------------------------------------------------------------------
(* Construction *)

Reset(g, heap, startLength) ==
    LET centerX == g.Width \div 2
        centerY == g.Height \div 2
        g0 == [g EXCEPT !.Tick = 0, !.TicksNoFruit = 0, !.FruitsEaten = 0,
                        !.Alive = TRUE, !.DeathReason = DeathNone,
                        !.ProgressSum = 0, !.LastFruitDist = 0,
                        !.Dir = DirRight,
                        !.Snake = [i \in 1..startLength |-> Point(centerX - (i - 1), centerY)]]
    IN  IF g0.FruitEnabled
        THEN LET r == spawnFruit(g0, heap)
             IN  [g |-> [r.g EXCEPT !.LastFruitDist = distanceToFruit(r.g)], heap |-> r.heap]
        ELSE [g |-> g0, heap |-> heap]

\* the same, but every game draws from one process-wide source
NewGameSharedSource(heap, width, height, startLength, tickCap, stallWindow, fruitEnabled, sd) ==
    LET heap1 == IF Len(heap) = 0 THEN <<NewSource(sd)>> ELSE heap
        g == [Width |-> width, Height |-> height, TickCap |-> tickCap,
              StallWindow |-> stallWindow, FruitEnabled |-> fruitEnabled,
              Snake |-> << >>, Dir |-> DirUp, Fruit |-> Point(0, 0),
              Tick |-> 0, TicksNoFruit |-> 0, FruitsEaten |-> 0,
              Alive |-> FALSE, DeathReason |-> DeathNone,
              ProgressSum |-> 0, LastFruitDist |-> 0,
              rng |-> 1]
    IN  Reset(g, heap1, startLength)

\* NewGame allocates the game and a fresh source seeded with sd, then resets
NewGame(heap, width, height, startLength, tickCap, stallWindow, fruitEnabled, sd) ==
    LET heap1 == Append(heap, NewSource(sd))
        g == [Width |-> width, Height |-> height, TickCap |-> tickCap,
              StallWindow |-> stallWindow, FruitEnabled |-> fruitEnabled,
              Snake |-> << >>, Dir |-> DirUp, Fruit |-> Point(0, 0),
              Tick |-> 0, TicksNoFruit |-> 0, FruitsEaten |-> 0,
              Alive |-> FALSE, DeathReason |-> DeathNone,
              ProgressSum |-> 0, LastFruitDist |-> 0,
              rng |-> Len(heap1)]
    IN  Reset(g, heap1, startLength)

----------------------------------------------------------------------------
(* Step *)

\* the tick-cap branch recording the cause but leaving the game alive
EndOfTickStaysAlive(g) ==
    IF g.TicksNoFruit >= g.StallWindow
    THEN [g EXCEPT !.Alive = FALSE, !.DeathReason = DeathStall]
    ELSE IF g.Tick >= g.TickCap
    THEN [g EXCEPT !.DeathReason = DeathTimeout]
    ELSE g

\* the tick cap compared strictly, one tick late
EndOfTickLateCap(g) ==
    IF g.TicksNoFruit >= g.StallWindow
    THEN [g EXCEPT !.Alive = FALSE, !.DeathReason = DeathStall]
    ELSE IF g.Tick > g.TickCap
    THEN [g EXCEPT !.Alive = FALSE, !.DeathReason = DeathTimeout]
    ELSE g

\* the end-of-tick checks in the other order: the tick cap first
EndOfTickCapFirst(g) ==
    IF g.Tick >= g.TickCap
    THEN [g EXCEPT !.Alive = FALSE, !.DeathReason = DeathTimeout]
    ELSE IF g.TicksNoFruit >= g.StallWindow
    THEN [g EXCEPT !.Alive = FALSE, !.DeathReason = DeathStall]
    ELSE g

\* the end-of-tick checks: stall first, then the tick cap
EndOfTick(g) ==
    IF g.TicksNoFruit >= g.StallWindow
    THEN [g EXCEPT !.Alive = FALSE, !.DeathReason = DeathStall]
    ELSE IF g.Tick >= g.TickCap
    THEN [g EXCEPT !.Alive = FALSE, !.DeathReason = DeathTimeout]
    ELSE g

\* growing without resetting the ticks-since-fruit counter
GrowNoReset(g, heap, newHead) ==
    LET g1 == [g EXCEPT !.Snake = <<newHead>> \o g.Snake,
                        !.FruitsEaten = g.FruitsEaten + 1]
        r == spawnFruit(g1, heap)
    IN  [g |-> [r.g EXCEPT !.LastFruitDist = distanceToFruit(r.g)], heap |-> r.heap]

\* the head is prepended and the tail kept; a new fruit is placed
Grow(g, heap, newHead) ==
    LET g1 == [g EXCEPT !.Snake = <<newHead>> \o g.Snake,
                        !.FruitsEaten = g.FruitsEaten + 1,
                        !.TicksNoFruit = 0]
        r == spawnFruit(g1, heap)
    IN  [g |-> [r.g EXCEPT !.LastFruitDist = distanceToFruit(r.g)], heap |-> r.heap]

\* the shift forgetting to drop the tail
ShiftKeepsTail(g, newHead) ==
    LET g1 == [g EXCEPT !.Snake = <<newHead>> \o g.Snake]
    IN  IF g1.FruitEnabled
        THEN LET newDist == distanceToFruit(g1)
                 improvement == g1.LastFruitDist - newDist
             IN  [g1 EXCEPT !.ProgressSum = IF improvement > 0 THEN @ + improvement ELSE @,
                            !.LastFruitDist = newDist]
        ELSE g1

\* the shift adding every change of the distance, also a negative one
ShiftSignedProgress(g, newHead) ==
    LET g1 == [g EXCEPT !.Snake = <<newHead>> \o SubSeq(g.Snake, 1, Len(g.Snake) - 1)]
    IN  IF g1.FruitEnabled
        THEN LET newDist == distanceToFruit(g1)
                 improvement == g1.LastFruitDist - newDist
             IN  [g1 EXCEPT !.ProgressSum = @ + improvement,
                            !.LastFruitDist = newDist]
        ELSE g1

\* the head is prepended and the tail dropped; progress toward the fruit is tracked
Shift(g, newHead) ==
    LET g1 == [g EXCEPT !.Snake = <<newHead>> \o SubSeq(g.Snake, 1, Len(g.Snake) - 1)]
    IN  IF g1.FruitEnabled
        THEN LET newDist == distanceToFruit(g1)
                 improvement == g1.LastFruitDist - newDist
             IN  [g1 EXCEPT !.ProgressSum = IF improvement > 0 THEN @ + improvement ELSE @,
                            !.LastFruitDist = newDist]
        ELSE g1

\* the self-collision test wrongly counting the tail cell
HitsBodyWithTail(g, newHead) == \E i \in 1..Len(g.Snake) : g.Snake[i] = newHead

\* the self-collision test: every body cell except the tail, which moves away
HitsBody(g, newHead) == \E i \in 1..(Len(g.Snake) - 1) : g.Snake[i] = newHead

\* the collisions tested before the counters and the heading are updated
StepAliveUncounted(g, heap, action) ==
    LET g1 == [g EXCEPT !.Tick = g.Tick + 1,
                        !.TicksNoFruit = g.TicksNoFruit + 1,
                        !.Dir = applyTurn(g, action)]
        newHead == moveInDirection(g1.Snake[1], g1.Dir)
    IN  IF OutOfGrid(g1, newHead)
        THEN [g |-> [g EXCEPT !.Alive = FALSE, !.DeathReason = DeathWall], heap |-> heap]
        ELSE IF HitsBody(g1, newHead)
        THEN [g |-> [g EXCEPT !.Alive = FALSE, !.DeathReason = DeathSelf], heap |-> heap]
        ELSE IF g1.FruitEnabled /\ newHead = g1.Fruit
        THEN LET r == Grow(g1, heap, newHead)
             IN  [g |-> EndOfTick(r.g), heap |-> r.heap]
        ELSE [g |-> EndOfTick(Shift(g1, newHead)), heap |-> heap]

\* the body of Step after its guard
StepAlive(g, heap, action) ==
    LET g1 == [g EXCEPT !.Tick = g.Tick + 1,
                        !.TicksNoFruit = g.TicksNoFruit + 1,
                        !.Dir = applyTurn(g, action)]
        newHead == moveInDirection(g1.Snake[1], g1.Dir)
    IN  IF OutOfGrid(g1, newHead)
        THEN [g |-> [g1 EXCEPT !.Alive = FALSE, !.DeathReason = DeathWall], heap |-> heap]
        ELSE IF HitsBody(g1, newHead)
        THEN [g |-> [g1 EXCEPT !.Alive = FALSE, !.DeathReason = DeathSelf], heap |-> heap]
        ELSE IF g1.FruitEnabled /\ newHead = g1.Fruit
        THEN LET r == Grow(g1, heap, newHead)
             IN  [g |-> EndOfTick(r.g), heap |-> r.heap]
        ELSE [g |-> EndOfTick(Shift(g1, newHead)), heap |-> heap]

\* Step without its early return
StepUnguarded(g, heap, action) == StepAlive(g, heap, action)

Step(g, heap, action) ==
    IF ~g.Alive
    THEN [g |-> g, heap |-> heap]
    ELSE StepAlive(g, heap, action)

Stats(g, sd) ==
    [Score |-> 0, Fruits |-> g.FruitsEaten, Ticks |-> g.Tick,
     ProgressSum |-> g.ProgressSum, Death |-> g.DeathReason, Seed |-> sd]

\* the wall query with the off-by-one bounds test
IsDangerWallOffByOne(g, relDir) ==
    OutOfGridOffByOne(g, moveInDirection(g.Snake[1], applyTurn(g, relDir)))

IsDangerWall(g, relDir) ==
    OutOfGrid(g, moveInDirection(g.Snake[1], applyTurn(g, relDir)))

\* the body query wrongly counting the tail cell
IsDangerBodyWithTail(g, relDir) ==
    LET newPos == moveInDirection(g.Snake[1], applyTurn(g, relDir))
    IN  \E i \in 1..Len(g.Snake) : g.Snake[i] = newPos

\* all cells but the tail (it will move)
IsDangerBody(g, relDir) ==
    LET newPos == moveInDirection(g.Snake[1], applyTurn(g, relDir))
    IN  \E i \in 1..(Len(g.Snake) - 1) : g.Snake[i] = newPos

IsDanger(g, relDir) == IsDangerWall(g, relDir) \/ IsDangerBody(g, relDir)

\* FruitDirection: the offset from head to fruit, divided by width + height
\* and rotated by the heading; <<x, y>>
FruitDirection(g) ==
    LET maxD == g.Width + g.Height
        dx == FDivInt(Float64(g.Fruit.X - g.Snake[1].X), maxD)
        dy == FDivInt(Float64(g.Fruit.Y - g.Snake[1].Y), maxD)
    IN  IF ~g.FruitEnabled THEN <<0, 0>>
        ELSE IF g.Dir = DirUp THEN <<dx, -dy>>
        ELSE IF g.Dir = DirRight THEN <<-dy, dx>>
        ELSE IF g.Dir = DirDown THEN <<-dx, dy>>
        ELSE IF g.Dir = DirLeft THEN <<dy, -dx>>
        ELSE <<dx, dy>>

----------------------------------------------------------------------------
(* Specification Spec: one game, created with any configuration of the    *)
(* bounded sets, stepped with any action, also after it has ended.        *)

game == games[1]

Init ==
    \E w \in Widths, h \in Heights, sl \in StartLengths, tc \in TickCaps,
       sw \in StallWindows, fe \in BOOLEAN, sd \in Seeds :
        LET r == NewGame(<< >>, w, h, sl, tc, sw, fe, sd)
        IN  /\ games = <<r.g>>
            /\ rngHeap = r.heap
            /\ seed = sd
            /\ last = << >>
            /\ NoEvaluator

DoStep(a) ==
    LET r == Step(game, rngHeap, a)
    IN  /\ games' = [games EXCEPT ![1] = r.g]
        /\ rngHeap' = r.heap
        /\ last' = <<[action |-> a, before |-> game, rngBefore |-> rngHeap]>>
        /\ UNCHANGED <<seed, evalVars>>

Next == \E a \in Actions : DoStep(a)

Spec == Init /\ [][Next]_vars

----------------------------------------------------------------------------
(* Specification SpecDet: two games created by two calls of NewGame with  *)
(* the same arguments and stepped with the same action sequence.          *)

twin == games[2]

InitDet ==
    \E w \in Widths, h \in Heights, sl \in StartLengths, tc \in TickCaps,
       sw \in StallWindows, fe \in BOOLEAN, sd \in Seeds :
        LET r1 == NewGame(<< >>, w, h, sl, tc, sw, fe, sd)
            r2 == NewGame(r1.heap, w, h, sl, tc, sw, fe, sd)
        IN  /\ games = <<r1.g, r2.g>>
            /\ rngHeap = r2.heap
            /\ seed = sd
            /\ last = << >>
            /\ NoEvaluator

StepBoth(a) ==
    LET r1 == Step(game, rngHeap, a)
        r2 == Step(twin, r1.heap, a)
    IN  /\ games' = <<r1.g, r2.g>>
        /\ rngHeap' = r2.heap
        /\ last' = <<[action |-> a, before |-> game, rngBefore |-> rngHeap]>>
        /\ UNCHANGED <<seed, evalVars>>

NextDet == \E a \in Actions : StepBoth(a)

SpecDet == InitDet /\ [][NextDet]_vars

----------------------------------------------------------------------------
(* Specification SpecSeeds: two games without fruit created with the same *)
(* arguments except the seed and stepped with the same action sequence.   *)

InitSeeds ==
    \E w \in Widths, h \in Heights, sl \in StartLengths, tc \in TickCaps,
       sw \in StallWindows, sd1 \in Seeds, sd2 \in Seeds :
        LET r1 == NewGame(<< >>, w, h, sl, tc, sw, FALSE, sd1)
            r2 == NewGame(r1.heap, w, h, sl, tc, sw, FALSE, sd2)
        IN  /\ games = <<r1.g, r2.g>>
            /\ rngHeap = r2.heap
            /\ seed = sd1
            /\ last = << >>
            /\ NoEvaluator

SpecSeeds == InitSeeds /\ [][NextDet]_vars

----------------------------------------------------------------------------
(* Specification SpecScripted: runScriptedTest on the wall track's         *)
(* environment (10x10, start length 1, no fruit, tick cap 200).            *)

WallTrackWidth == 10
WallTrackHeight == 10
WallTrackStartLength == 1
WallTrackTickCap == 200
WallTrackStallWindow == 9999
ScriptedSeed == 12345

\* go straight; with a wall ahead turn right if that is free, else left if that is free
ScriptedAction(g) ==
    IF IsDangerWall(g, ActionStraight)
    THEN IF ~IsDangerWall(g, ActionRight) THEN ActionRight
         ELSE IF ~IsDangerWall(g, ActionLeft) THEN ActionLeft
         ELSE ActionStraight
    ELSE ActionStraight

InitScripted ==
    LET r == NewGame(<< >>, WallTrackWidth, WallTrackHeight, WallTrackStartLength,
                     WallTrackTickCap, WallTrackStallWindow, FALSE, ScriptedSeed)
    IN  /\ games = <<r.g>>
        /\ rngHeap = r.heap
        /\ seed = ScriptedSeed
        /\ last = << >>
        /\ NoEvaluator

\* one iteration of the loop `for game.Alive`
ScriptedStep == game.Alive /\ DoStep(ScriptedAction(game))

NextScripted == ScriptedStep

SpecScripted == InitScripted /\ [][NextScripted]_vars

----------------------------------------------------------------------------
(* Specification SpecCycle: a fruit-enabled game on a 4x3 grid driven     *)
(* along a Hamiltonian cycle of the grid, the play that eats every fruit   *)
(* and fills the grid; once the grid is full the driver may also go        *)
(* straight.  Tick cap and stall window are those of the fruit track.      *)

FruitTrackTickCap == 150
FruitTrackStallWindow == 40

\* the driver's input: a closed tour through all 12 cells, starting at the
\* start cell (2,1)
CyclePath ==
    << Point(2, 1), Point(2, 2), Point(3, 2), Point(3, 1), Point(3, 0), Point(2, 0),
       Point(1, 0), Point(0, 0), Point(0, 1), Point(0, 2), Point(1, 2), Point(1, 1) >>

CycleSuccessor(p) ==
    LET i == CHOOSE k \in 1..Len(CyclePath) : CyclePath[k] = p
    IN  CyclePath[(i % Len(CyclePath)) + 1]

\* the relative action that moves the head to the next cell of the cycle
CycleAction(g) ==
    CHOOSE a \in Actions :
        moveInDirection(g.Snake[1], applyTurn(g, a)) = CycleSuccessor(g.Snake[1])

GridFull(g) == Len(EmptyCells(g)) = 0

InitCycle ==
    \E sl \in StartLengths, sd \in Seeds :
        LET r == NewGame(<< >>, 4, 3, sl, FruitTrackTickCap, FruitTrackStallWindow, TRUE, sd)
        IN  /\ games = <<r.g>>
            /\ rngHeap = r.heap
            /\ seed = sd
            /\ last = << >>
            /\ NoEvaluator

FollowCycle == game.Alive /\ DoStep(CycleAction(game))

LeaveCycle == game.Alive /\ GridFull(game) /\ DoStep(ActionStraight)

NextCycle == FollowCycle \/ LeaveCycle

SpecCycle == InitCycle /\ [][NextCycle]_vars

----------------------------------------------------------------------------
(* The fitness functions of the Evaluator (internal/eval/evaluator.go).    *)

MaxFruits == 2
MaxHalves == 3

DeathReasons == {DeathNone, DeathWall, DeathSelf, DeathStall, DeathTimeout}

Min(a, b) == IF a < b THEN a ELSE b

fitnessWall(c, st) ==
    Float64(st.Ticks) - (IF st.Death = DeathWall THEN c.Fitness.WallPenalty ELSE 0)

fitnessSelf(c, st) ==
    Float64(st.Ticks)
    - (IF st.Death = DeathSelf THEN c.Fitness.SelfPenalty
       ELSE IF st.Death = DeathWall THEN FMul(c.Fitness.WallPenalty, 33)
       ELSE IF st.Death = DeathStall THEN c.Fitness.StallPenalty
       ELSE 0)

\* the fruit score without the cap on the rewarded ticks
fitnessFruitUncapped(c, st) ==
    FMul(c.Fitness.FruitReward, Float64(st.Fruits))
    + FMul(c.Fitness.SurvivalW, Float64(st.Ticks))
    + FMul(c.Fitness.ProgressW, st.ProgressSum)
    - (IF st.Death \in {DeathWall, DeathSelf} THEN Float64(300)
       ELSE IF st.Death \in {DeathStall, DeathTimeout} THEN Float64(150)
       ELSE 0)

fitnessFruit(c, st) ==
    LET survivalTicks == Min(Float64(st.Ticks), Float64(c.Fitness.SurvivalCap))
    IN  FMul(c.Fitness.FruitReward, Float64(st.Fruits))
        + FMul(c.Fitness.SurvivalW, survivalTicks)
        + FMul(c.Fitness.ProgressW, st.ProgressSum)
        - (IF st.Death \in {DeathWall, DeathSelf} THEN Float64(300)
           ELSE IF st.Death \in {DeathStall, DeathTimeout} THEN Float64(150)
           ELSE 0)

fitnessMulti(c, st) ==
    LET survivalTicks == Min(Float64(st.Ticks), Float64(60))
    IN  FMul(Float64(8000), Float64(st.Fruits))
        + FMul(Float64(2), survivalTicks)
        + FMul(c.Fitness.ProgressW, st.ProgressSum)
        - (IF st.Death \in {DeathWall, DeathSelf} THEN Float64(300)
           ELSE IF st.Death \in {DeathStall, DeathTimeout} THEN Float64(150)
           ELSE 0)

ComputeFitness(c, st) ==
    IF c.Fitness.Mode = "wall" THEN fitnessWall(c, st)
    ELSE IF c.Fitness.Mode = "self" THEN fitnessSelf(c, st)
    ELSE IF c.Fitness.Mode = "fruit" THEN fitnessFruit(c, st)
    ELSE IF c.Fitness.Mode = "multi" THEN fitnessMulti(c, st)
    ELSE fitnessWall(c, st)

\* the fitness section of the configuration with the values of the tracks'
\* configuration files, for mode m
DefaultFitness(m) ==
    [Mode |-> m, WallPenalty |-> Float64(500), SelfPenalty |-> Float64(600),
     StallPenalty |-> Float64(100), FruitReward |-> Float64(5000),
     SurvivalCap |-> 40, SurvivalW |-> Float64(2), ProgressW |-> Float64(10)]

FitnessModes == {"wall", "self", "fruit", "multi", "other"}

\* the configured fitness sections: the default one in every mode, and in
\* mode fruit also other rewards, caps and weights (0.5 and 1.5 among them)
FitnessConfigs ==
    {DefaultFitness(m) : m \in FitnessModes}
    \cup {[DefaultFitness("fruit") EXCEPT !.FruitReward = fr, !.SurvivalCap = sc,
                                          !.SurvivalW = sw, !.ProgressW = pw] :
            fr \in {Float64(1), Float64(5000)}, sc \in {2, 40},
            sw \in {50, Float64(2)}, pw \in {150, Float64(10)}}

\* the EpisodeStats handed to the fitness function: progress sums in steps
\* of 0.5 and the value 12.5, tick counts around the caps
EpisodeInputs(f) ==
    [Score : {0},
     Fruits : 0..MaxFruits,
     Ticks : (0..MaxTickCap) \cup {f.SurvivalCap - 1, f.SurvivalCap, f.SurvivalCap + 1,
                                   FruitTrackTickCap},
     ProgressSum : {k * 50 : k \in 0..MaxHalves} \cup {1250},
     Death : DeathReasons,
     Seed : {0}]

----------------------------------------------------------------------------
(* Specification SpecFitness: the statement stats.Score =                 *)
(* e.ComputeFitness(stats) applied to any EpisodeStats of the bounded set  *)
(* under any of the configured fitness sections.                           *)

InitFitness ==
    \E f \in FitnessConfigs :
        \E st \in EpisodeInputs(f) :
            /\ games = << >>
            /\ rngHeap = << >>
            /\ seed = 0
            /\ last = << >>
            /\ cfg = [Fitness |-> f]
            /\ stats = st
            /\ pc = "stats"
            /\ replay = << >>
            /\ mlps = << >> /\ genomes = << >>
            /\ NoTraining

ScoreEpisode ==
    /\ pc = "stats"
    /\ stats' = [stats EXCEPT !.Score = ComputeFitness(cfg, stats)]
    /\ pc' = "scored"
    /\ UNCHANGED <<games, rngHeap, seed, last, cfg, replay, mlps, genomes, trainVars>>

NextFitness == ScoreEpisode

SpecFitness == InitFitness /\ [][NextFitness]_vars

----------------------------------------------------------------------------
(* Replays (internal/env/replay.go) and EvaluateWithReplay.                *)

\* the zero value of EpisodeStats
ZeroStats ==
    [Score |-> 0, Fruits |-> 0, Ticks |-> 0, ProgressSum |-> 0, Death |-> DeathNone,
     Seed |-> 0]

NewReplay(sd, config) ==
    [Seed |-> sd, Actions |-> << >>, FinalStats |-> ZeroStats, Config |-> config]

Record(r, action) == [r EXCEPT !.Actions = Append(@, action)]

SetFinalStats(r, st) == [r EXCEPT !.FinalStats = st]

\* Playback that builds the game with seed 0 instead of the recorded seed
PlaybackDefaultSeed(r, heap) ==
    NewGame(heap, r.Config.Width, r.Config.Height, r.Config.StartLength,
            r.Config.TickCap, r.Config.StallWindow, r.Config.FruitEnabled, 0)

\* Playback: a fresh game from the recorded configuration and seed
Playback(r, heap) ==
    NewGame(heap, r.Config.Width, r.Config.Height, r.Config.StartLength,
            r.Config.TickCap, r.Config.StallWindow, r.Config.FruitEnabled, r.Seed)

\* the loop of PlaybackStep from index i (1-based) on
RECURSIVE PlaybackLoop(_, _, _, _, _)
PlaybackLoop(r, g, heap, i, step) ==
    IF i <= step /\ g.Alive
    THEN LET n == Step(g, heap, r.Actions[i])
         IN  PlaybackLoop(r, n.g, n.heap, i + 1, step)
    ELSE [g |-> g, heap |-> heap]

\* PlaybackStep: step is clamped to the number of recorded actions
PlaybackStep(r, g, heap, step) ==
    PlaybackLoop(r, g, heap, 1, IF step > Len(r.Actions) THEN Len(r.Actions) ELSE step)

----------------------------------------------------------------------------
(* Specification SpecReplay: EvaluateWithReplay records an episode played  *)
(* by any policy (the action of each iteration is any of the three, which  *)
(* covers every genome), then the replay is played back on a fresh game.   *)

EnvConfigs ==
    [Width : Widths, Height : Heights, StartLength : StartLengths, TickCap : TickCaps,
     StallWindow : StallWindows, FruitEnabled : BOOLEAN]

played == games[2]

InitReplay ==
    \E e \in EnvConfigs, sd \in Seeds :
        LET r == NewGame(<< >>, e.Width, e.Height, e.StartLength, e.TickCap,
                         e.StallWindow, e.FruitEnabled, sd)
        IN  /\ games = <<r.g>>
            /\ rngHeap = r.heap
            /\ seed = sd
            /\ last = << >>
            /\ cfg = [Env |-> e,
                      Fitness |-> DefaultFitness(IF e.FruitEnabled THEN "fruit" ELSE "wall")]
            /\ stats = << >>
            /\ replay = NewReplay(sd, e)
            /\ pc = "record"
            /\ mlps = << >> /\ genomes = << >>
            /\ NoTraining

\* one iteration of the loop: the action is recorded, then stepped
RecordStep(a) ==
    /\ pc = "record" /\ game.Alive
    /\ replay' = Record(replay, a)
    /\ LET r == Step(game, rngHeap, a)
       IN  /\ games' = [games EXCEPT ![1] = r.g]
           /\ rngHeap' = r.heap
           /\ last' = <<[action |-> a, before |-> game, rngBefore |-> rngHeap]>>
    /\ UNCHANGED <<seed, cfg, stats, pc, mlps, genomes, trainVars>>

\* after the loop: the scored stats are stored in the replay and returned
FinishRecording ==
    /\ pc = "record" /\ ~game.Alive
    /\ LET st == Stats(game, seed)
           scored == [st EXCEPT !.Score = ComputeFitness(cfg, st)]
       IN  /\ stats' = scored
           /\ replay' = SetFinalStats(replay, scored)
    /\ pc' = "recorded"
    /\ UNCHANGED <<games, rngHeap, seed, last, cfg, mlps, genomes, trainVars>>

DoPlayback ==
    /\ pc = "recorded"
    /\ LET r == Playback(replay, rngHeap)
       IN  /\ games' = <<game, r.g>>
           /\ rngHeap' = r.heap
    /\ pc' = "playback"
    /\ UNCHANGED <<seed, last, cfg, stats, replay, mlps, genomes, trainVars>>

\* PlaybackStep on the fresh game: "played" when step covers every recorded
\* action, "partial" otherwise
DoPlaybackStep(step) ==
    /\ pc = "playback"
    /\ LET r == PlaybackStep(replay, played, rngHeap, step)
       IN  /\ games' = <<game, r.g>>
           /\ rngHeap' = r.heap
    /\ pc' = IF step >= Len(replay.Actions) THEN "played" ELSE "partial"
    /\ UNCHANGED <<seed, last, cfg, stats, replay, mlps, genomes, trainVars>>

NextReplay ==
    \/ \E a \in Actions : RecordStep(a)
    \/ FinishRecording
    \/ DoPlayback
    \/ \E step \in 0..(Len(replay.Actions) + 1) : DoPlaybackStep(step)

SpecReplay == InitReplay /\ [][NextReplay]_vars

----------------------------------------------------------------------------
(* The policy network (internal/nn/mlp.go) and the observation of the     *)
(* wall track (internal/env/features.go).  float32 values are fixed-point  *)
(* numbers in hundredths like the float64 ones.  The forward-pass buffers  *)
(* of the MLP and the buffer of the FeatureExtractor are written wholly by *)
(* each call before they are read, and are not kept in the state.          *)

MaxHidden == 2

GenomeSize(m) ==
    (m.InputSize + 1) * m.Hidden1
    + (IF m.Hidden2 > 0
       THEN (m.Hidden1 + 1) * m.Hidden2 + (m.Hidden2 + 1) * m.OutputSize
       ELSE (m.Hidden1 + 1) * m.OutputSize)

NewMLP(inputSize, hidden1, hidden2, outputSize) ==
    LET m == [InputSize |-> inputSize, Hidden1 |-> hidden1, Hidden2 |-> hidden2,
              OutputSize |-> outputSize, Weights |-> << >>]
    IN  [m EXCEPT !.Weights = [i \in 1..GenomeSize(m) |-> 0]]

\* SetWeights is copy(m.Weights, genome): the first min(len, len) elements
SetWeights(m, genome) ==
    [m EXCEPT !.Weights = [i \in 1..Len(m.Weights) |->
                              IF i <= Len(genome) THEN genome[i] ELSE m.Weights[i]]]

relu(x) == IF x > 0 THEN x ELSE 0

\* the index (from 0) of the first greatest value
argmax(vals) ==
    (CHOOSE i \in 1..Len(vals) :
        /\ \A k \in 1..Len(vals) : vals[k] <= vals[i]
        /\ \A k \in 1..(i - 1) : vals[k] < vals[i]) - 1

\* sum of xs[i] * ws[bias + i] for i in 1..n
RECURSIVE WeightedSum(_, _, _, _)
WeightedSum(ws, bias, xs, n) ==
    IF n = 0 THEN 0 ELSE WeightedSum(ws, bias, xs, n - 1) + FMul(xs[n], ws[bias + n])

\* the sums of a layer of `count` neurons over n inputs whose weights start
\* after the first `offset` weights: each neuron has its bias, then n weights
Layer(ws, offset, xs, n, count) ==
    [j \in 1..count |->
        LET bias == offset + (j - 1) * (n + 1) + 1
        IN  ws[bias] + WeightedSum(ws, bias, xs, n)]

Forward(m, input) ==
    LET s1 == Layer(m.Weights, 0, input, m.InputSize, m.Hidden1)
        h1 == [j \in 1..m.Hidden1 |-> relu(s1[j])]
        off1 == (m.InputSize + 1) * m.Hidden1
        s2 == Layer(m.Weights, off1, h1, m.Hidden1, m.Hidden2)
        h2 == [j \in 1..m.Hidden2 |-> relu(s2[j])]
        lastHidden == IF m.Hidden2 > 0 THEN h2 ELSE h1
        off2 == IF m.Hidden2 > 0 THEN off1 + (m.Hidden1 + 1) * m.Hidden2 ELSE off1
    IN  argmax(Layer(m.Weights, off2, lastHidden, Len(lastHidden), m.OutputSize))

ObsDim(obsType) ==
    IF obsType = "wall_min" THEN 3
    ELSE IF obsType = "self_min" THEN 6
    ELSE IF obsType = "fruit_min" THEN 6
    ELSE IF obsType = "multi_min" THEN 10
    ELSE 3

boolToFloat(b) == IF b THEN Float64(1) ELSE 0

extractWallMin(g) ==
    << boolToFloat(IsDangerWall(g, ActionStraight)),
       boolToFloat(IsDangerWall(g, ActionLeft)),
       boolToFloat(IsDangerWall(g, ActionRight)) >>

\* Extract for the observation types of the wall track ("wall_min" and the
\* default branch); the other types are not part of this model
Extract(obsType, g) == extractWallMin(g)

\* the values a gene takes in the model: -1.0, 0.0 and 1.0
GeneValues == {0 - Float64(1), 0, Float64(1)}

----------------------------------------------------------------------------
(* Evaluation of one agent (internal/eval/evaluator.go) and aggregation   *)
(* over several episodes (internal/env/stats.go).                          *)

\* the loop `for game.Alive` of EvaluateAgent: observe, forward, step
RECURSIVE RunEpisode(_, _, _, _)
RunEpisode(g, heap, m, obsType) ==
    IF g.Alive
    THEN LET r == Step(g, heap, Forward(m, Extract(obsType, g)))
         IN  RunEpisode(r.g, r.heap, m, obsType)
    ELSE g

\* stats := game.Stats(seed); stats.Score = e.ComputeFitness(stats)
ScoredStats(c, g, sd) ==
    LET st == Stats(g, sd) IN [st EXCEPT !.Score = ComputeFitness(c, st)]

\* EvaluateAgent run on its own: a game and a network built for this call
EvaluateAgent(c, genome, sd) ==
    LET r == NewGame(<< >>, c.Env.Width, c.Env.Height, c.Env.StartLength, c.Env.TickCap,
                     c.Env.StallWindow, c.Env.FruitEnabled, sd)
        mlp == SetWeights(NewMLP(ObsDim(c.Track.Obs), c.NN.Hidden1, c.NN.Hidden2, 3), genome)
    IN  ScoredStats(c, RunEpisode(r.g, r.heap, mlp, c.Track.Obs), sd)

RECURSIVE SumOver(_, _)
SumOver(f, n) == IF n = 0 THEN 0 ELSE SumOver(f, n - 1) + f[n]

\* the zero value of AggregatedStats with an allocated, empty DeathCounts
EmptyAgg ==
    [ScoreMean |-> 0, ScoreStd |-> 0, FruitsMean |-> 0, TicksMean |-> 0, ProgressMean |-> 0,
     DeathCounts |-> [d \in DeathReasons |-> 0], NumEpisodes |-> 0]

\* Aggregate with the sample standard deviation (n - 1 in the divisor)
AggregateSampleStd(episodes) ==
    LET n == Len(episodes)
        mean == FDivInt(SumOver([i \in 1..n |-> episodes[i].Score], n), n)
        variance == SumOver([i \in 1..n |-> FMul(episodes[i].Score - mean,
                                                  episodes[i].Score - mean)], n)
    IN  IF n = 0 THEN EmptyAgg
        ELSE [ScoreMean |-> mean,
              ScoreStd |-> IF n = 1 THEN 0 ELSE FSqrt(FDivInt(variance, n - 1)),
              FruitsMean |-> FDivInt(SumOver([i \in 1..n |-> Float64(episodes[i].Fruits)], n), n),
              TicksMean |-> FDivInt(SumOver([i \in 1..n |-> Float64(episodes[i].Ticks)], n), n),
              ProgressMean |-> FDivInt(SumOver([i \in 1..n |-> episodes[i].ProgressSum], n), n),
              DeathCounts |-> [d \in DeathReasons |->
                                  Cardinality({i \in 1..n : episodes[i].Death = d})],
              NumEpisodes |-> n]

Aggregate(episodes) ==
    LET n == Len(episodes)
        mean == FDivInt(SumOver([i \in 1..n |-> episodes[i].Score], n), n)
        variance == SumOver([i \in 1..n |-> FMul(episodes[i].Score - mean,
                                                  episodes[i].Score - mean)], n)
    IN  IF n = 0 THEN EmptyAgg
        ELSE [ScoreMean |-> mean,
              ScoreStd |-> FSqrt(FDivInt(variance, n)),
              FruitsMean |-> FDivInt(SumOver([i \in 1..n |-> Float64(episodes[i].Fruits)], n), n),
              TicksMean |-> FDivInt(SumOver([i \in 1..n |-> Float64(episodes[i].Ticks)], n), n),
              ProgressMean |-> FDivInt(SumOver([i \in 1..n |-> episodes[i].ProgressSum], n), n),
              DeathCounts |-> [d \in DeathReasons |->
                                  Cardinality({i \in 1..n : episodes[i].Death = d})],
              NumEpisodes |-> n]

RobustnessScore(agg, lambda) == agg.ScoreMean - FMul(lambda, agg.ScoreStd)

\* EvaluateMultiSeed run on its own: the seeds are baseSeed, baseSeed + 1, ...
EvaluateMultiSeed(c, genome, baseSeed, numSeeds) ==
    Aggregate([i \in 1..numSeeds |-> EvaluateAgent(c, genome, baseSeed + (i - 1))])

----------------------------------------------------------------------------
(* Agents, genomes and slices of agents (internal/ga/population.go).  The  *)
(* heap is a record mem = [agents, genomes, arrays]: Agent objects, the    *)
(* backing arrays of genome slices and the backing arrays of []*Agent      *)
(* slices.  A []*Agent slice is [arr, len]: it starts at the first element *)
(* of array arr and its capacity is the length of that array.              *)

Slice(arr, len) == [arr |-> arr, len |-> len]

NilSlice == Slice(0, 0)

\* the elements of slice sl
Elems(arrs, sl) == IF sl.arr = 0 THEN << >> ELSE [i \in 1..sl.len |-> arrs[sl.arr][i]]

\* the array with x stored in element i
SetAt(array, i, x) == [j \in 1..Len(array) |-> IF j = i THEN x ELSE array[j]]

\* make([]*Agent, size) with one element too many
MakeSliceLonger(arrs, size) ==
    [arrays |-> Append(arrs, [i \in 1..(size + 1) |-> 0]), slice |-> Slice(Len(arrs) + 1, size + 1)]

\* make([]*Agent, size): a new array of nil pointers
MakeSlice(arrs, size) ==
    [arrays |-> Append(arrs, [i \in 1..size |-> 0]), slice |-> Slice(Len(arrs) + 1, size)]

\* append(sl, x): within the capacity the element is written into the array
\* the slice shares; beyond it a new array of twice the capacity is made
AppendSlice(arrs, sl, x) ==
    IF sl.arr # 0 /\ sl.len < Len(arrs[sl.arr])
    THEN [arrays |-> [arrs EXCEPT ![sl.arr] = SetAt(@, sl.len + 1, x)],
          slice  |-> Slice(sl.arr, sl.len + 1)]
    ELSE LET grown == [i \in 1..(IF sl.len = 0 THEN 1 ELSE 2 * sl.len) |->
                          IF i <= sl.len THEN arrs[sl.arr][i]
                          ELSE IF i = sl.len + 1 THEN x ELSE 0]
         IN  [arrays |-> Append(arrs, grown), slice |-> Slice(Len(arrs) + 1, sl.len + 1)]

\* &Agent{Genome: genome}: the other fields have their zero values
NewAgent(genome) ==
    [Genome |-> genome, Fitness |-> 0, Stats |-> ZeroStats, AggStats |-> EmptyAgg,
     RobustScore |-> 0]

\* nn.CloneGenome: a new array with the same genes
CloneGenome(mem, genome) ==
    [mem |-> [mem EXCEPT !.genomes = Append(@, mem.genomes[genome])],
     genome |-> Len(mem.genomes) + 1]

\* Agent.Clone: a new agent with a cloned genome and copies of the other fields
Clone(mem, a) ==
    LET r == CloneGenome(mem, mem.agents[a].Genome)
    IN  [mem |-> [r.mem EXCEPT !.agents = Append(@, [mem.agents[a] EXCEPT !.Genome = r.genome])],
         agent |-> Len(mem.agents) + 1]

\* the orders sort.Slice may leave the agents in: fitness descending, agents
\* of equal fitness in any order (the sort is not stable)
SortedOrders(mem, sl) ==
    LET e == Elems(mem.arrays, sl)
    IN  {o \in {[i \in 1..sl.len |-> e[p[i]]] : p \in Permutations(1..sl.len)} :
            \A i \in 1..(sl.len - 1) : mem.agents[o[i]].Fitness >= mem.agents[o[i + 1]].Fitness}

\* Population.SortByFitness leaving the slice in the given order
SortByFitness(mem, sl, order) ==
    [mem EXCEPT !.arrays[sl.arr] = [i \in 1..Len(@) |-> IF i <= sl.len THEN order[i] ELSE @[i]]]

\* Population.Best: the first agent of greatest fitness
Best(mem, sl) ==
    LET e == Elems(mem.arrays, sl)
        i == CHOOSE k \in 1..sl.len :
                 /\ \A j \in 1..sl.len : mem.agents[e[j]].Fitness <= mem.agents[e[k]].Fitness
                 /\ \A j \in 1..(k - 1) : mem.agents[e[j]].Fitness < mem.agents[e[k]].Fitness
    IN  IF sl.len = 0 THEN 0 ELSE e[i]

----------------------------------------------------------------------------
(* The body of the training loop (cmd/train main) between the two          *)
(* evaluation passes.  m is the record of main's variables: Agents is      *)
(* pop.Agents.                                                             *)

\* the candidates taken from the population as it stands, without the sort
FormCandidatesUnsorted(mem, m, c, order) ==
    LET topK == Min(c.Eval.TopKMultiseed, m.Agents.len)
        top == Slice(m.Agents.arr, topK)
        found == \E i \in 1..topK :
                     mem.agents[mem.arrays[top.arr][i]].Genome = mem.agents[m.bestEver].Genome
    IN  IF m.bestEver # 0 /\ ~found
        THEN LET r == AppendSlice(mem.arrays, top, m.bestEver)
             IN  [mem |-> [mem EXCEPT !.arrays = r.arrays], candidates |-> r.slice]
        ELSE [mem |-> mem, candidates |-> top]

\* steps 3 of the loop: sort, take the top K as candidates, add the
\* best-ever agent unless a candidate has its genome array
FormCandidates(mem, m, c, order) ==
    LET mem1 == SortByFitness(mem, m.Agents, order)
        topK == Min(c.Eval.TopKMultiseed, m.Agents.len)
        top == Slice(m.Agents.arr, topK)
        found == \E i \in 1..topK :
                     mem1.agents[mem1.arrays[top.arr][i]].Genome = mem1.agents[m.bestEver].Genome
    IN  IF m.bestEver # 0 /\ ~found
        THEN LET r == AppendSlice(mem1.arrays, top, m.bestEver)
             IN  [mem |-> [mem1 EXCEPT !.arrays = r.arrays], candidates |-> r.slice]
        ELSE [mem |-> mem1, candidates |-> top]

\* step 5: the first candidate of greatest robustness score (nil if none)
BestRobust(mem, candidates) ==
    LET e == Elems(mem.arrays, candidates)
        i == CHOOSE k \in 1..Len(e) :
                 /\ \A j \in 1..Len(e) :
                        mem.agents[e[j]].RobustScore <= mem.agents[e[k]].RobustScore
                 /\ \A j \in 1..(k - 1) :
                        mem.agents[e[j]].RobustScore < mem.agents[e[k]].RobustScore
    IN  IF Len(e) = 0 THEN 0 ELSE e[i]

\* the update of bestEver replacing it also when bestRobust only ties with it
UpdateBestEverOnTie(mem, m) ==
    LET bestRobust == BestRobust(mem, m.candidates)
    IN  IF m.bestEver = 0
           \/ (bestRobust # 0
               /\ mem.agents[bestRobust].RobustScore >= mem.agents[m.bestEver].RobustScore)
        THEN LET r == Clone(mem, bestRobust)
             IN  [mem |-> r.mem, bestEver |-> r.agent]
        ELSE [mem |-> mem, bestEver |-> m.bestEver]

\* the update of bestEver: a clone of bestRobust when there is no best-ever
\* yet or bestRobust scores strictly higher
UpdateBestEver(mem, m) ==
    LET bestRobust == BestRobust(mem, m.candidates)
    IN  IF m.bestEver = 0
           \/ (bestRobust # 0
               /\ mem.agents[bestRobust].RobustScore > mem.agents[m.bestEver].RobustScore)
        THEN LET r == Clone(mem, bestRobust)
             IN  [mem |-> r.mem, bestEver |-> r.agent]
        ELSE [mem |-> mem, bestEver |-> m.bestEver]

----------------------------------------------------------------------------
(* createNextGeneration (cmd/train main) with selection, crossover and     *)
(* mutation (internal/ga).  The outcomes of the draws from the run's       *)
(* random source are arguments: the index drawn by each rng.Intn, the      *)
(* branch each comparison with rng.Float64() takes, the value each         *)
(* rng.NormFloat64() contributes.                                          *)

\* the loop of TournamentSelect from draw i on
RECURSIVE TournamentFrom(_, _, _, _, _, _)
TournamentFrom(mem, pool, draws, i, k, best) ==
    IF i > k THEN best
    ELSE LET candidate == pool[draws[i]]
         IN  TournamentFrom(mem, pool, draws, i + 1, k,
                            IF mem.agents[candidate].Fitness > mem.agents[best].Fitness
                            THEN candidate ELSE best)

\* TournamentSelect: draws[i] is the index (from 1) drawn by the i-th rng.Intn
TournamentSelect(mem, pool, k, draws) ==
    IF Len(pool) = 0 THEN 0
    ELSE TournamentFrom(mem, pool, draws, 2, Min(k, Len(pool)), pool[draws[1]])

\* SelectionPool after its sort: the first poolSize agents of the population
SelectionPool(mem, sl, poolSize) == Elems(mem.arrays, Slice(sl.arr, Min(poolSize, sl.len)))

\* UniformCrossover, first child: the genes at the indexes of `swapped` come
\* from p2, the others from p1
UniformCrossover(g1, g2, swapped) ==
    [i \in 1..Len(g1) |-> IF i \in swapped THEN g2[i] ELSE g1[i]]

\* CreateChild handing out the parent's own genome array when it does not cross
CreateChildSharing(mem, p1, p2, cross) ==
    IF cross.kind = "p1"
    THEN [mem |-> [mem EXCEPT !.agents = Append(@, NewAgent(mem.agents[p1].Genome))],
          agent |-> Len(mem.agents) + 1]
    ELSE IF cross.kind = "p2"
    THEN [mem |-> [mem EXCEPT !.agents = Append(@, NewAgent(mem.agents[p2].Genome))],
          agent |-> Len(mem.agents) + 1]
    ELSE LET c1 == UniformCrossover(mem.genomes[mem.agents[p1].Genome],
                                    mem.genomes[mem.agents[p2].Genome], cross.swapped)
         IN  [mem |-> [mem EXCEPT !.genomes = Append(@, c1),
                                  !.agents = Append(@, NewAgent(Len(mem.genomes) + 1))],
              agent |-> Len(mem.agents) + 1]

\* CreateChild: a clone of one parent's genome, or the first child of a
\* uniform crossover; cross is [kind, swapped] with kind p1, p2 or cross
CreateChild(mem, p1, p2, cross) ==
    IF cross.kind \in {"p1", "p2"}
    THEN LET r == CloneGenome(mem, mem.agents[IF cross.kind = "p1" THEN p1 ELSE p2].Genome)
         IN  [mem |-> [r.mem EXCEPT !.agents = Append(@, NewAgent(r.genome))],
              agent |-> Len(mem.agents) + 1]
    ELSE LET c1 == UniformCrossover(mem.genomes[mem.agents[p1].Genome],
                                    mem.genomes[mem.agents[p2].Genome], cross.swapped)
         IN  [mem |-> [mem EXCEPT !.genomes = Append(@, c1),
                                  !.agents = Append(@, NewAgent(Len(mem.genomes) + 1))],
              agent |-> Len(mem.agents) + 1]

\* MutateWithReset, in place: mut[i] is [op, v] with op reset (the gene
\* becomes v), add (v is added to the gene) or keep
MutateWithReset(mem, genome, mut) ==
    [mem EXCEPT !.genomes[genome] =
        [i \in 1..Len(@) |-> IF mut[i].op = "reset" THEN mut[i].v
                             ELSE IF mut[i].op = "add" THEN @[i] + mut[i].v
                             ELSE @[i]]]

MutateAgent(mem, a, mut) == MutateWithReset(mem, mem.agents[a].Genome, mut)

\* an elite loop that copies the last agent of the sorted population
RECURSIVE KeepElitesWorst(_, _, _, _, _)
KeepElitesWorst(mem, pop, new, i, n) ==
    IF i > n THEN mem
    ELSE LET r == Clone(mem, mem.arrays[pop.arr][pop.len])
         IN  KeepElitesWorst([r.mem EXCEPT !.arrays[new.arr] = SetAt(@, i, r.agent)],
                             pop, new, i + 1, n)

\* the elite loop: newAgents[i] = pop.Agents[i].Clone() for the slots up to n
RECURSIVE KeepElites(_, _, _, _, _)
KeepElites(mem, pop, new, i, n) ==
    IF i > n THEN mem
    ELSE LET r == Clone(mem, mem.arrays[pop.arr][i])
         IN  KeepElites([r.mem EXCEPT !.arrays[new.arr] = SetAt(@, i, r.agent)], pop, new, i + 1, n)

\* the offspring loop from slot i on: plans[i] holds the draws of slot i
RECURSIVE FillOffspring(_, _, _, _, _, _)
FillOffspring(mem, pool, new, c, plans, i) ==
    IF i > c.GA.Population THEN mem
    ELSE LET p1 == TournamentSelect(mem, pool, c.GA.TournamentK, plans[i].d1)
             p2 == TournamentSelect(mem, pool, c.GA.TournamentK, plans[i].d2)
             child == CreateChild(mem, p1, p2, plans[i].cross)
             mem1 == MutateAgent(child.mem, child.agent, plans[i].mut)
         IN  FillOffspring([mem1 EXCEPT !.arrays[new.arr] = SetAt(@, i, child.agent)],
                           pool, new, c, plans, i + 1)

\* the fraction reset from slot i on: every gene of a reset agent becomes v
RECURSIVE ResetWorst(_, _, _, _, _)
ResetWorst(mem, new, c, i, v) ==
    IF i > c.GA.Population THEN mem
    ELSE LET g == mem.agents[mem.arrays[new.arr][i]].Genome
             mem1 == IF i - 1 >= c.GA.Elites
                     THEN [mem EXCEPT !.genomes[g] = [j \in 1..Len(@) |-> v]]
                     ELSE mem
         IN  ResetWorst(mem1, new, c, i + 1, v)

\* createNextGeneration: rnd is [order1, order2, plans, reset, resetValue]
createNextGeneration(mem, m, c, rnd) ==
    LET made == MakeSlice(mem.arrays, c.GA.Population)
        new == made.slice
        mem1 == SortByFitness([mem EXCEPT !.arrays = made.arrays], m.Agents, rnd.order1)
        mem2 == KeepElites(mem1, m.Agents, new, 1, Min(c.GA.Elites, m.Agents.len))
        mem3 == SortByFitness(mem2, m.Agents, rnd.order2)
        pool == SelectionPool(mem3, m.Agents, c.GA.SelectionPool)
        mem4 == FillOffspring(mem3, pool, new, c, rnd.plans, c.GA.Elites + 1)
        numReset == (c.GA.Population * c.GA.ResetFraction) \div 100
        mem5 == IF c.GA.ResetFraction > 0 /\ rnd.reset
                THEN ResetWorst(mem4, new, c, c.GA.Population - numReset + 1, rnd.resetValue)
                ELSE mem4
    IN  [mem |-> mem5, newAgents |-> new]

----------------------------------------------------------------------------
(* The random source of createNextGeneration made explicit.  A *rand.Rand  *)
(* is [tape, pos, log]: tape holds the raw outcomes of the calls still to  *)
(* come, pos the next one, log the calls made so far with the function     *)
(* called, its argument, the value returned and the calling function (by)  *)
(* with the index (i) of the call or gene it works on.                     *)

MaxTournamentK == 3

\* the values rng.Float64() and rng.NormFloat64() return in the model
FloatOutcomes == <<5, 60>>
NormOutcomes == <<-100, 100>>

Rand(tape, log) == [tape |-> tape, pos |-> 1, log |-> log]

Called(r, fn, n, v, by, i) ==
    [r EXCEPT !.pos = @ + 1,
              !.log = Append(@, [fn |-> fn, n |-> n, v |-> v, by |-> by, i |-> i])]

\* rng.Intn(n): a value of 0..n-1
RandIntn(r, n, by, i) ==
    LET v == r.tape[r.pos] % n
    IN  [value |-> v, rng |-> Called(r, "Intn", n, v, by, i)]

\* rng.Float64(): a value of [0, 1)
RandFloat64(r, by, i) ==
    LET v == FloatOutcomes[(r.tape[r.pos] % 2) + 1]
    IN  [value |-> v, rng |-> Called(r, "Float64", 0, v, by, i)]

\* rng.NormFloat64()
RandNormFloat64(r, by, i) ==
    LET v == NormOutcomes[(r.tape[r.pos] % 2) + 1]
    IN  [value |-> v, rng |-> Called(r, "NormFloat64", 0, v, by, i)]

\* the draws of TournamentSelect's loop from iteration i on; draws holds the
\* indexes (from 1) drawn so far
RECURSIVE TournamentDraws(_, _, _, _, _, _)
TournamentDraws(r, n, i, k, call, draws) ==
    IF i >= k THEN [draws |-> draws, rng |-> r]
    ELSE LET d == RandIntn(r, n, "TournamentSelect", call)
         IN  TournamentDraws(d.rng, n, i + 1, k, call, Append(draws, d.value + 1))

\* TournamentSelect drawing from rng: nothing is drawn from an empty pool, k
\* is lowered to the pool's length, one index is drawn for best and one per
\* iteration of the loop
TournamentSelectRng(mem, pool, k, r, call) ==
    IF Len(pool) = 0 THEN [agent |-> 0, rng |-> r]
    ELSE LET k1 == IF k > Len(pool) THEN Len(pool) ELSE k
             first == RandIntn(r, Len(pool), "TournamentSelect", call)
             rest == TournamentDraws(first.rng, Len(pool), 1, k1, call, <<first.value + 1>>)
         IN  [agent |-> TournamentSelect(mem, pool, k, rest.draws), rng |-> rest.rng]

\* SelectParents: p1 is selected before p2
SelectParentsRng(mem, pool, k, r) ==
    LET s1 == TournamentSelectRng(mem, pool, k, r, 1)
        s2 == TournamentSelectRng(mem, pool, k, s1.rng, 2)
    IN  [p1 |-> s1.agent, p2 |-> s2.agent, rng |-> s2.rng]

\* the draws of UniformCrossover from gene i on: one rng.Float64() per gene
RECURSIVE CrossoverDraws(_, _, _, _, _)
CrossoverDraws(r, i, size, rate, swapped) ==
    IF i > size THEN [swapped |-> swapped, rng |-> r]
    ELSE LET d == RandFloat64(r, "UniformCrossover", i)
         IN  CrossoverDraws(d.rng, i + 1, size, rate,
                            IF d.value < rate THEN swapped \cup {i} ELSE swapped)

\* CreateChild drawing from rng
CreateChildRng(mem, p1, p2, crossoverRate, r) ==
    LET d1 == RandFloat64(r, "CreateChild", 1)
        d2 == RandFloat64(d1.rng, "CreateChild", 2)
        x == CrossoverDraws(d1.rng, 1, Len(mem.genomes[mem.agents[p1].Genome]), 50, {})
    IN  IF d1.value > crossoverRate
        THEN [child |-> CreateChild(mem, p1, p2,
                            [kind |-> IF d2.value < 50 THEN "p1" ELSE "p2", swapped |-> {}]),
              rng |-> d2.rng]
        ELSE [child |-> CreateChild(mem, p1, p2, [kind |-> "cross", swapped |-> x.swapped]),
              rng |-> x.rng]

\* the draws of a mutation that makes the perturbation check for every gene,
\* also after a reset (where its outcome is not used)
RECURSIVE MutationDrawsBothChecks(_, _, _, _, _, _, _)
MutationDrawsBothChecks(r, i, size, rate, sigma, resetP, mut) ==
    IF i > size THEN [mut |-> mut, rng |-> r]
    ELSE LET d1 == RandFloat64(r, "MutateWithReset", i)
             v1 == RandNormFloat64(d1.rng, "MutateWithReset", i)
             d2 == RandFloat64(IF d1.value < resetP THEN v1.rng ELSE d1.rng,
                               "MutateWithReset", i)
             v2 == RandNormFloat64(d2.rng, "MutateWithReset", i)
         IN  IF d1.value < resetP
             THEN MutationDrawsBothChecks(d2.rng, i + 1, size, rate, sigma, resetP,
                      Append(mut, [op |-> "reset", v |-> FMul(v1.value, 50)]))
             ELSE IF d2.value < rate
             THEN MutationDrawsBothChecks(v2.rng, i + 1, size, rate, sigma, resetP,
                      Append(mut, [op |-> "add", v |-> FMul(v2.value, sigma)]))
             ELSE MutationDrawsBothChecks(d2.rng, i + 1, size, rate, sigma, resetP,
                      Append(mut, [op |-> "keep", v |-> 0]))

\* the draws of MutateWithReset from gene i on; mut holds the outcome for the
\* genes before i
RECURSIVE MutationDraws(_, _, _, _, _, _, _)
MutationDraws(r, i, size, rate, sigma, resetP, mut) ==
    IF i > size THEN [mut |-> mut, rng |-> r]
    ELSE LET d1 == RandFloat64(r, "MutateWithReset", i)
             v1 == RandNormFloat64(d1.rng, "MutateWithReset", i)
             d2 == RandFloat64(d1.rng, "MutateWithReset", i)
             v2 == RandNormFloat64(d2.rng, "MutateWithReset", i)
         IN  IF d1.value < resetP
             THEN MutationDraws(v1.rng, i + 1, size, rate, sigma, resetP,
                      Append(mut, [op |-> "reset", v |-> FMul(v1.value, 50)]))
             ELSE IF d2.value < rate
             THEN MutationDraws(v2.rng, i + 1, size, rate, sigma, resetP,
                      Append(mut, [op |-> "add", v |-> FMul(v2.value, sigma)]))
             ELSE MutationDraws(d2.rng, i + 1, size, rate, sigma, resetP,
                      Append(mut, [op |-> "keep", v |-> 0]))

\* MutateAgent drawing from rng
MutateAgentRng(mem, a, rate, sigma, resetP, r) ==
    LET m == MutationDraws(r, 1, Len(mem.genomes[mem.agents[a].Genome]), rate, sigma,
                           resetP, << >>)
    IN  [mem |-> MutateAgent(mem, a, m.mut), rng |-> m.rng]

\* the genes of genome g from gene j on, each replaced by a fresh draw
RECURSIVE ResetGenesRng(_, _, _, _, _)
ResetGenesRng(mem, g, j, slot, r) ==
    IF j > Len(mem.genomes[g]) THEN [mem |-> mem, rng |-> r]
    ELSE LET v == RandNormFloat64(r, "createNextGeneration", slot)
         IN  ResetGenesRng([mem EXCEPT !.genomes[g] = SetAt(@, j, FMul(v.value, 50))],
                           g, j + 1, slot, v.rng)

\* the loop of a fraction reset that spares no slot
RECURSIVE ResetWorstRngAll(_, _, _, _, _)
ResetWorstRngAll(mem, new, c, i, r) ==
    IF i > c.GA.Population THEN [mem |-> mem, rng |-> r]
    ELSE LET x == IF i - 1 >= 0
                  THEN ResetGenesRng(mem, mem.agents[mem.arrays[new.arr][i]].Genome, 1, i, r)
                  ELSE [mem |-> mem, rng |-> r]
         IN  ResetWorstRngAll(x.mem, new, c, i + 1, x.rng)

\* the loop of the fraction reset from slot i (from 1) on, drawing from rng
RECURSIVE ResetWorstRng(_, _, _, _, _)
ResetWorstRng(mem, new, c, i, r) ==
    IF i > c.GA.Population THEN [mem |-> mem, rng |-> r]
    ELSE LET x == IF i - 1 >= c.GA.Elites
                  THEN ResetGenesRng(mem, mem.agents[mem.arrays[new.arr][i]].Genome, 1, i, r)
                  ELSE [mem |-> mem, rng |-> r]
         IN  ResetWorstRng(x.mem, new, c, i + 1, x.rng)

\* step 4 of createNextGeneration: the 10% draw is made only when
\* ResetFraction > 0
ResetFractionRng(mem, new, c, r) ==
    LET d == RandFloat64(r, "createNextGeneration", 0)
        numReset == (c.GA.Population * c.GA.ResetFraction) \div 100
    IN  IF c.GA.ResetFraction > 0
        THEN IF d.value < 10
             THEN ResetWorstRng(mem, new, c, c.GA.Population - numReset + 1, d.rng)
             ELSE [mem |-> mem, rng |-> d.rng]
        ELSE [mem |-> mem, rng |-> r]

----------------------------------------------------------------------------
(* Specification SpecTrain: the training entry point.  Every generation    *)
(* runs the single-seed pass over the population, forms the candidates,    *)
(* runs the multi-seed pass over them, updates the best-ever agent and     *)
(* builds the next generation.  A pass starts one goroutine per agent, at  *)
(* most `workers` of them at a time; a goroutine builds its game and its   *)
(* network (setup), plays the episode (run), repeats both for each further *)
(* seed, and stores its result in its agent (store).                       *)

MaxWorkers == 2
MaxGenerations == 2

\* the policies of the initial population, for the 10 weights of a 3-1-3
\* network: go straight; always turn left; turn right when a wall is ahead
GoStraight == [i \in 1..10 |-> 0]
TurnLeft == [GoStraight EXCEPT ![7] = Float64(1)]
AvoidWall == [GoStraight EXCEPT ![2] = Float64(1), ![10] = Float64(1)]
InitialPopulations ==
    {<<GoStraight, TurnLeft, AvoidWall>>, <<TurnLeft, TurnLeft, GoStraight>>}

\* the runs: the worker count of the configuration (0: one per CPU) and the
\* -generations flag; the runs of several generations have one worker
TrainRuns ==
    {[Workers |-> w, generations |-> 1] : w \in {0} \cup 2..MaxWorkers}
    \cup {[Workers |-> 1, generations |-> MaxGenerations]}

\* the configurations of the training runs: a 3x3 grid, 3 agents
TrainConfigs ==
    {[Env |-> [Width |-> 3, Height |-> 3, StartLength |-> 1, TickCap |-> 6,
               StallWindow |-> 7, FruitEnabled |-> fe],
      NN |-> [Hidden1 |-> 1, Hidden2 |-> 0],
      Track |-> [Obs |-> "wall_min"],
      Fitness |-> IF fe THEN [DefaultFitness("fruit") EXCEPT !.FruitReward = Float64(5)]
                  ELSE DefaultFitness("wall"),
      GA |-> [Population |-> 3, Elites |-> el, SelectionPool |-> 2, TournamentK |-> 2,
              ResetFraction |-> 34],
      Eval |-> [TopKMultiseed |-> tk, MultiseedRuns |-> 2, MultiseedBaseSeed |-> 1,
                RobustnessLambda |-> 25, Workers |-> run.Workers],
      NumCPU |-> 2, generations |-> run.generations] :
        fe \in BOOLEAN, el \in {2}, tk \in {1, 3}, run \in TrainRuns}

\* NewEvaluator taking the configured worker count as it is
WorkersAsConfigured(c) == c.Eval.Workers

\* NewEvaluator: the CPU count stands in for a worker count <= 0
Workers(c) == IF c.Eval.Workers <= 0 THEN c.NumCPU ELSE c.Eval.Workers

mem == [agents |-> agents, genomes |-> genomes, arrays |-> arrays]

population == Elems(arrays, main.Agents)

InitTrain ==
    \E c \in TrainConfigs, sd \in {3} :
        \E gs \in InitialPopulations :
            /\ games = << >>
            /\ rngHeap = <<NewSource(sd)>>
            /\ seed = sd
            /\ last = << >>
            /\ cfg = c
            /\ stats = << >>
            /\ replay = << >>
            /\ pc = "loop"
            /\ genomes = [i \in 1..c.GA.Population |-> gs[i]]
            /\ agents = [i \in 1..c.GA.Population |-> NewAgent(i)]
            /\ arrays = <<[i \in 1..c.GA.Population |-> i]>>
            /\ mlps = <<NewMLP(ObsDim(c.Track.Obs), c.NN.Hidden1, c.NN.Hidden2, 3)>>
            /\ main = [Agents |-> Slice(1, c.GA.Population), candidates |-> NilSlice,
                       bestEver |-> 0, gen |-> 1, genSeed |-> 0, generations |-> c.generations,
                       batch |-> NilSlice, next |-> 1, wg |-> 0, sem |-> 0,
                       evaluated |-> << >>]
            /\ workers = << >>

unchangedByTraining == <<games, rngHeap, seed, last, cfg, stats, replay>>

\* the head of the loop: the generation's seed, then the single-seed pass
StartGeneration ==
    /\ pc = "loop"
    /\ IF main.gen <= main.generations
       THEN /\ main' = [main EXCEPT !.genSeed = seed + main.gen, !.batch = main.Agents,
                                    !.next = 1]
            /\ pc' = "pass1"
       ELSE /\ main' = main
            /\ pc' = "end"
    /\ workers' = << >>
    /\ mlps' = <<mlps[1]>>
    /\ UNCHANGED <<unchangedByTraining, agents, genomes, arrays>>

\* the goroutine is handed the loop variable's value of its own iteration
HandedAgentLast(batch, i) == batch[Len(batch)]

HandedAgent(batch, i) == batch[i]

\* the network of the evaluation of goroutine k is the Evaluator's own
SharedMLP(k) == 1

\* the network of the evaluation of goroutine k: one allocated for it
LocalMLP(k) == k + 1

\* wg.Wait returning without waiting
WaitReturnsAtOnce(wg) == TRUE

\* wg.Wait returns when the counter is zero
WaitReturns(wg) == wg = 0

\* one iteration of the dispatch loop: wg.Add(1), a slot of the semaphore
\* (blocking while `workers` goroutines hold one), go func(agent)
Dispatch ==
    /\ pc \in {"pass1", "pass2"}
    /\ main.next <= main.batch.len
    /\ main.sem < Workers(cfg)
    /\ workers' = Append(workers,
                         [agent |-> HandedAgent(Elems(arrays, main.batch), main.next),
                          pc |-> "setup", game |-> << >>, heap |-> << >>,
                          seeds |-> IF pc = "pass1" THEN <<main.genSeed>>
                                    ELSE [i \in 1..cfg.Eval.MultiseedRuns |->
                                             cfg.Eval.MultiseedBaseSeed + (i - 1)],
                          episodes |-> << >>])
    /\ mlps' = Append(mlps, mlps[1])
    /\ main' = [main EXCEPT !.next = @ + 1, !.wg = @ + 1, !.sem = @ + 1]
    /\ UNCHANGED <<unchangedByTraining, agents, genomes, arrays, pc>>

\* EvaluateAgent up to its loop: the game, the network, the weights
WorkerSetup(k) ==
    LET w == workers[k]
        r == NewGame(<< >>, cfg.Env.Width, cfg.Env.Height, cfg.Env.StartLength,
                     cfg.Env.TickCap, cfg.Env.StallWindow, cfg.Env.FruitEnabled,
                     w.seeds[Len(w.episodes) + 1])
    IN  /\ w.pc = "setup"
        /\ workers' = [workers EXCEPT ![k].game = r.g, ![k].heap = r.heap, ![k].pc = "run"]
        /\ mlps' = [mlps EXCEPT ![LocalMLP(k)] =
                        SetWeights(NewMLP(ObsDim(cfg.Track.Obs), cfg.NN.Hidden1,
                                          cfg.NN.Hidden2, 3),
                                   genomes[agents[w.agent].Genome])]
        /\ UNCHANGED <<unchangedByTraining, agents, genomes, arrays, main, pc>>

\* the episode loop of EvaluateAgent and its scored stats
WorkerRun(k) ==
    LET w == workers[k]
        g == RunEpisode(w.game, w.heap, mlps[LocalMLP(k)], cfg.Track.Obs)
        episodes == Append(w.episodes, ScoredStats(cfg, g, w.seeds[Len(w.episodes) + 1]))
    IN  /\ w.pc = "run"
        /\ workers' = [workers EXCEPT ![k].game = g, ![k].episodes = episodes,
                                      ![k].pc = IF Len(episodes) < Len(w.seeds)
                                                THEN "setup" ELSE "store"]
        /\ UNCHANGED <<unchangedByTraining, agents, genomes, arrays, main, mlps, pc>>

\* the goroutine stores its result in its agent, frees its slot and calls wg.Done
WorkerStore(k) ==
    LET w == workers[k]
        agg == Aggregate(w.episodes)
    IN  /\ w.pc = "store"
        /\ agents' = IF pc = "pass1"
                     THEN [agents EXCEPT ![w.agent].Stats = w.episodes[1],
                                         ![w.agent].Fitness = w.episodes[1].Score]
                     ELSE [agents EXCEPT ![w.agent].AggStats = agg,
                                         ![w.agent].RobustScore =
                                             RobustnessScore(agg, cfg.Eval.RobustnessLambda)]
        /\ workers' = [workers EXCEPT ![k].pc = "done"]
        /\ main' = [main EXCEPT !.sem = @ - 1, !.wg = @ - 1]
        /\ UNCHANGED <<unchangedByTraining, genomes, arrays, mlps, pc>>

\* wg.Wait returns: the pass is over
PassReturns ==
    /\ pc \in {"pass1", "pass2"}
    /\ main.next > main.batch.len
    /\ WaitReturns(main.wg)
    /\ pc' = IF pc = "pass1" THEN "sort" ELSE "best"
    /\ main' = IF pc = "pass1" THEN [main EXCEPT !.evaluated = population] ELSE main
    /\ UNCHANGED <<unchangedByTraining, agents, genomes, arrays, mlps, workers>>

\* sort, candidates, best-ever; then the multi-seed pass starts
DoFormCandidates ==
    /\ pc = "sort"
    /\ \E order \in SortedOrders(mem, main.Agents) :
           LET r == FormCandidates(mem, main, cfg, order)
           IN  /\ arrays' = r.mem.arrays
               /\ main' = [main EXCEPT !.candidates = r.candidates, !.batch = r.candidates,
                                       !.next = 1]
    /\ pc' = "pass2"
    /\ workers' = << >>
    /\ mlps' = <<mlps[1]>>
    /\ UNCHANGED <<unchangedByTraining, agents, genomes>>

DoUpdateBestEver ==
    /\ pc = "best"
    /\ LET r == UpdateBestEver(mem, main)
       IN  /\ agents' = r.mem.agents
           /\ genomes' = r.mem.genomes
           /\ main' = [main EXCEPT !.bestEver = r.bestEver]
    /\ pc' = "nextgen"
    /\ UNCHANGED <<unchangedByTraining, arrays, mlps, workers>>

calcGenomeSize(inputSize, hidden1, hidden2, outputSize) ==
    ((inputSize + 1) * hidden1)
    + (IF hidden2 > 0
       THEN ((hidden1 + 1) * hidden2) + ((hidden2 + 1) * outputSize)
       ELSE (hidden1 + 1) * outputSize)

\* the outcomes of the draws of one offspring slot: the indexes drawn by the
\* two tournaments, the branch of CreateChild, the mutation of each gene
\* (none, or gene 7 reset to 1.0)
OffspringPlans(c) ==
    LET k == Min(c.GA.TournamentK, Min(c.GA.SelectionPool, c.GA.Population))
        n == Min(c.GA.SelectionPool, c.GA.Population)
        size == calcGenomeSize(ObsDim(c.Track.Obs), c.NN.Hidden1, c.NN.Hidden2, 3)
        keep == [i \in 1..size |-> [op |-> "keep", v |-> 0]]
        mutated == [keep EXCEPT ![7] = [op |-> "reset", v |-> Float64(1)]]
    IN  {[d1 |-> [i \in 1..k |-> 1], d2 |-> [i \in 1..k |-> n],
          cross |-> [kind |-> "p1", swapped |-> {}], mut |-> keep],
         [d1 |-> [i \in 1..k |-> IF i = 1 THEN n ELSE 1], d2 |-> [i \in 1..k |-> 1],
          cross |-> [kind |-> "p2", swapped |-> {}], mut |-> mutated],
         [d1 |-> [i \in 1..k |-> n], d2 |-> [i \in 1..k |-> 1],
          cross |-> [kind |-> "cross", swapped |-> {i \in 1..size : i % 2 = 1}],
          mut |-> keep]}

\* createNextGeneration and pop.Agents = nextGen, then the loop's gen++
DoCreateNextGeneration ==
    /\ pc = "nextgen"
    /\ \E order1 \in SortedOrders(mem, main.Agents),
          plans \in [(cfg.GA.Elites + 1)..cfg.GA.Population -> OffspringPlans(cfg)] :
           LET order2 == order1
               \* the 10% draw of the reset: taken when the last slot only copies
               reset == plans[cfg.GA.Population].cross.kind = "p1"
               r == createNextGeneration(mem, main, cfg,
                        [order1 |-> order1, order2 |-> order2, plans |-> plans,
                         reset |-> reset, resetValue |-> 0])
           IN  /\ agents' = r.mem.agents
               /\ genomes' = r.mem.genomes
               /\ arrays' = r.mem.arrays
               /\ main' = [main EXCEPT !.Agents = r.newAgents, !.gen = @ + 1]
    /\ pc' = "loop"
    /\ UNCHANGED <<unchangedByTraining, mlps, workers>>

NextTrain ==
    \/ StartGeneration
    \/ Dispatch
    \/ \E k \in 1..Len(workers) : WorkerSetup(k)
    \/ \E k \in 1..Len(workers) : WorkerRun(k)
    \/ \E k \in 1..Len(workers) : WorkerStore(k)
    \/ PassReturns
    \/ DoFormCandidates
    \/ DoUpdateBestEver
    \/ DoCreateNextGeneration

SpecTrain == InitTrain /\ [][NextTrain]_vars

\* the most goroutines one pass starts: one per agent of the largest batch
MaxBatch == 4

\* the training entry point under a fair scheduler: the dispatching loop sends
\* to the semaphore when a slot is free and wg.Wait returns when the counter
\* is zero; a started goroutine never blocks (its episodes end by the tick
\* cap, the deferred receive and wg.Done cannot block), so it reaches its end
SpecTrainFair ==
    /\ SpecTrain
    /\ WF_vars(Dispatch)
    /\ WF_vars(PassReturns)
    /\ \A k \in 1..MaxBatch : []<>(k <= Len(workers) => workers[k].pc = "done")

----------------------------------------------------------------------------
(* Specification SpecPlay: the play entry point loads a champion genome    *)
(* from its file, builds the game and the network, sets the weights and    *)
(* plays the episode.  The file holds any number of genes from none to one *)
(* more than the network has weights.                                      *)

NNConfigs == [Hidden1 : 1..MaxHidden, Hidden2 : 0..1]

\* the environments of the play and training models: no stall
PlayEnvConfigs ==
    [Width : Widths, Height : Heights, StartLength : StartLengths, TickCap : TickCaps,
     StallWindow : {MaxTickCap + 1}, FruitEnabled : BOOLEAN]

ExpectedGenomeSize(c) == GenomeSize(NewMLP(ObsDim(c.Track.Obs), c.NN.Hidden1, c.NN.Hidden2, 3))

\* the genomes a champion file may hold: every gene the same value
ChampionGenomes(c) ==
    {[i \in 1..n |-> v] : n \in 0..(ExpectedGenomeSize(c) + 1), v \in GeneValues}

champion == genomes[1]

InitPlay ==
    \E e \in PlayEnvConfigs, n \in NNConfigs, sd \in Seeds :
        LET c == [Env |-> e, NN |-> n, Track |-> [Obs |-> "wall_min"],
                  Fitness |-> DefaultFitness("wall")]
        IN  \E genome \in ChampionGenomes(c) :
                /\ games = << >>
                /\ rngHeap = << >>
                /\ seed = sd
                /\ last = << >>
                /\ cfg = c
                /\ stats = << >>
                /\ pc = "loaded"
                /\ replay = << >>
                /\ mlps = << >>
                /\ genomes = <<genome>>
                /\ NoTraining

\* NewGame, NewMLP and SetWeights of the play entry point: no length is compared
BuildNetwork ==
    /\ pc = "loaded"
    /\ LET r == NewGame(rngHeap, cfg.Env.Width, cfg.Env.Height, cfg.Env.StartLength,
                        cfg.Env.TickCap, cfg.Env.StallWindow, cfg.Env.FruitEnabled, seed)
           mlp == NewMLP(ObsDim(cfg.Track.Obs), cfg.NN.Hidden1, cfg.NN.Hidden2, 3)
       IN  /\ games' = <<r.g>>
           /\ rngHeap' = r.heap
           /\ mlps' = <<SetWeights(mlp, champion)>>
    /\ pc' = "play"
    /\ UNCHANGED <<seed, last, cfg, stats, replay, genomes, trainVars>>

\* one iteration of the game loop
PlayStep ==
    /\ pc = "play" /\ game.Alive
    /\ DoStep(Forward(mlps[1], Extract(cfg.Track.Obs, game)))

NextPlay == BuildNetwork \/ PlayStep

SpecPlay == InitPlay /\ [][NextPlay]_vars

----------------------------------------------------------------------------
(* Specification SpecOffspring: createNextGeneration drawing from its      *)
(* random source.  The population has three agents and two elites, so one  *)
(* offspring slot is filled, and the fraction reset follows it.            *)

\* the tapes of the given length with raw outcomes of 0..n-1
Tapes(len, n) == [1..len -> 0..(n - 1)]

\* the fitness of the three agents in the population's order
OffspringFitnesses == {<<Float64(1), Float64(3), Float64(3)>>,
                       <<Float64(2), Float64(1), Float64(3)>>}

\* a pool of two agents with every tournament size, pools of one agent and
\* of the whole population with tournaments of two; ResetFraction is the
\* default 0.10 (no slot of three), or 0.34, 0.67 and 1.5 (one, two and
\* four slots) with the pool of one
OffspringConfigs ==
    {[GA |-> [Population |-> 3, Elites |-> 2, SelectionPool |-> x[1], TournamentK |-> x[2],
              CrossoverRate |-> 50, MutationRate |-> 25, MutationSigma |-> 20,
              ResetMutationP |-> 25, ResetFraction |-> x[3]]] :
        x \in {<<2, k, 10>> : k \in 1..MaxTournamentK}
               \cup {<<1, 2, 10>>, <<4, 2, 10>>, <<1, 2, 34>>, <<1, 2, 67>>, <<1, 2, 150>>}}

\* the genes of agent i of the population
OffspringGenes(i) == <<Float64(i), -Float64(i)>>

\* the selection pool held by createNextGeneration
pool == Elems(arrays, main.pool)

InitOffspring ==
    \E c \in OffspringConfigs, f \in OffspringFitnesses :
        /\ games = << >>
        /\ rngHeap = << >>
        /\ seed = 0
        /\ last = << >>
        /\ cfg = c
        /\ stats = << >>
        /\ replay = << >>
        /\ mlps = << >>
        /\ pc = "elites"
        /\ genomes = [i \in 1..c.GA.Population |-> OffspringGenes(i)]
        /\ agents = [i \in 1..c.GA.Population |-> [NewAgent(i) EXCEPT !.Fitness = f[i]]]
        /\ arrays = <<[i \in 1..c.GA.Population |-> i]>>
        /\ main = [Agents |-> Slice(1, c.GA.Population), newAgents |-> NilSlice,
                   pool |-> NilSlice, i |-> 0, p1 |-> 0, p2 |-> 0, child |-> 0]
        /\ workers = << >>

unchangedByOffspring == <<games, rngHeap, seed, cfg, stats, replay, mlps, workers>>

\* newAgents, the sort, the elites and the selection pool
ElitesAndPool ==
    /\ pc = "elites"
    /\ \E order1 \in SortedOrders(mem, main.Agents) :
           LET made == MakeSlice(arrays, cfg.GA.Population)
               mem1 == SortByFitness([mem EXCEPT !.arrays = made.arrays], main.Agents, order1)
               mem2 == KeepElites(mem1, main.Agents, made.slice, 1,
                                  Min(cfg.GA.Elites, main.Agents.len))
           IN  \E order2 \in SortedOrders(mem2, main.Agents) :
                   LET mem3 == SortByFitness(mem2, main.Agents, order2)
                   IN  /\ agents' = mem3.agents
                       /\ genomes' = mem3.genomes
                       /\ arrays' = mem3.arrays
                       /\ main' = [main EXCEPT
                              !.newAgents = made.slice,
                              !.pool = Slice(main.Agents.arr,
                                             Min(cfg.GA.SelectionPool, main.Agents.len)),
                              !.i = cfg.GA.Elites + 1]
    /\ pc' = "select"
    /\ UNCHANGED <<unchangedByOffspring, last>>

\* p1, p2 := ga.SelectParents(pool, cfg.GA.TournamentK, rng)
DoSelectParents ==
    /\ pc = "select"
    /\ \E tape \in Tapes(2 * cfg.GA.TournamentK, cfg.GA.Population) :
           LET s == SelectParentsRng(mem, pool, cfg.GA.TournamentK, Rand(tape, last))
           IN  /\ main' = [main EXCEPT !.p1 = s.p1, !.p2 = s.p2]
               /\ last' = s.rng.log
    /\ pc' = "crossover"
    /\ UNCHANGED <<unchangedByOffspring, agents, genomes, arrays>>

\* child := ga.CreateChild(p1, p2, cfg.GA.CrossoverRate, rng)
DoCreateChild ==
    /\ pc = "crossover"
    /\ \E tape \in Tapes(1 + Len(genomes[agents[main.p1].Genome]), 2) :
           LET r == CreateChildRng(mem, main.p1, main.p2, cfg.GA.CrossoverRate,
                                   Rand(tape, last))
           IN  /\ agents' = r.child.mem.agents
               /\ genomes' = r.child.mem.genomes
               /\ arrays' = r.child.mem.arrays
               /\ main' = [main EXCEPT !.child = r.child.agent]
               /\ last' = r.rng.log
    /\ pc' = "mutate"
    /\ UNCHANGED unchangedByOffspring

\* ga.MutateAgent(child, ...); newAgents[i] = child
DoMutateAgent ==
    /\ pc = "mutate"
    /\ \E tape \in Tapes(3 * Len(genomes[agents[main.child].Genome]), 2) :
           LET r == MutateAgentRng(mem, main.child, cfg.GA.MutationRate,
                                   cfg.GA.MutationSigma, cfg.GA.ResetMutationP,
                                   Rand(tape, last))
           IN  /\ agents' = r.mem.agents
               /\ genomes' = r.mem.genomes
               /\ arrays' = [r.mem.arrays EXCEPT ![main.newAgents.arr] =
                                 SetAt(@, main.i, main.child)]
               /\ main' = [main EXCEPT !.i = @ + 1]
               /\ last' = r.rng.log
    /\ pc' = IF main.i + 1 > cfg.GA.Population THEN "reset" ELSE "select"
    /\ UNCHANGED unchangedByOffspring

\* the fraction reset, and createNextGeneration returns newAgents
DoResetFraction ==
    /\ pc = "reset"
    /\ \E tape \in Tapes(1 + (Min((cfg.GA.Population * cfg.GA.ResetFraction) \div 100,
                                    cfg.GA.Population) * Len(genomes[1])), 2) :
           LET r == ResetFractionRng(mem, main.newAgents, cfg, Rand(tape, last))
           IN  /\ agents' = r.mem.agents
               /\ genomes' = r.mem.genomes
               /\ arrays' = r.mem.arrays
               /\ last' = r.rng.log
    /\ pc' = "done"
    /\ UNCHANGED <<unchangedByOffspring, main>>

NextOffspring ==
    ElitesAndPool \/ DoSelectParents \/ DoCreateChild \/ DoMutateAgent \/ DoResetFraction

SpecOffspring == InitOffspring /\ [][NextOffspring]_vars

----------------------------------------------------------------------------

Stepped == Len(last) = 1
prev == last[1].before
act == last[1].action

----------------------------------------------------------------------------
(* Properties of Step, stated over the last call: prev is the game before *)
(* it, act its action, game the game after it.                            *)

TailCell(g) == g.Snake[Len(g.Snake)]
Target(g, a) == moveInDirection(g.Snake[1], applyTurn(g, a))
Opposite(d) == (d + 2) % 4
Distinct(snake) == \A i, j \in 1..Len(snake) : i # j => snake[i] # snake[j]
InGrid(g, p) == 0 <= p.X /\ p.X < g.Width /\ 0 <= p.Y /\ p.Y < g.Height

\* the game without its pointer to the random source
Fields(g) == [g EXCEPT !.rng = 0]

\* C1: two games created with the same arguments and stepped with the same
\* actions have identical states after every step, their sources are in the
\* same state, and Stats returns identical EpisodeStats.
C1_Determinism ==
    /\ Fields(game) = Fields(twin)
    /\ rngHeap[game.rng] = rngHeap[twin.rng]
    /\ Stats(game, seed) = Stats(twin, seed)

C1_Witness ==
    /\ Len(games) = 2 /\ game.rng # twin.rng
    /\ game.Alive /\ game.Tick >= 3 /\ game.FruitsEaten >= 2
    /\ twin.Alive /\ twin.Tick >= 3 /\ twin.FruitsEaten >= 2

\* C2: Step on a terminal game changes no field of the game and does not
\* advance its random source.
C2_TerminalStepIsNoOp ==
    (Stepped /\ ~prev.Alive) => (game = prev /\ rngHeap = last[1].rngBefore)

C2_Witness == Stepped /\ ~prev.Alive /\ prev.DeathReason = DeathWall

\* C3: while the game is alive the body cells are pairwise distinct.
C3_BodyCellsDistinct == game.Alive => Distinct(game.Snake)

\* C4: while the game is alive the head lies inside the grid.
C4_HeadInBounds == game.Alive => InGrid(game, game.Snake[1])

C4_Witness ==
    Stepped /\ prev.Alive /\ game.Alive /\ game.Snake[1].X = game.Width - 1
            /\ game.Snake[1].Y = game.Height - 1

\* C5: a step taken in an alive state lengthens the body by exactly 1 when it
\* ate fruit (FruitsEaten increased) and leaves the length unchanged otherwise.
C5_LengthChange ==
    (Stepped /\ prev.Alive) =>
        Len(game.Snake) = Len(prev.Snake)
                          + (IF game.FruitsEaten > prev.FruitsEaten THEN 1 ELSE 0)

C5_Witness ==
    Stepped /\ prev.Alive /\ game.FruitsEaten > prev.FruitsEaten
            /\ Len(game.Snake) = Len(prev.Snake) + 1

C7_TurnComposition ==
    LET turned(a) == [game EXCEPT !.Dir = applyTurn(game, a)]
    IN  /\ applyTurn(turned(ActionLeft), ActionRight) = game.Dir
        /\ applyTurn(turned(ActionRight), ActionLeft) = game.Dir
        /\ applyTurn(game, ActionStraight) = game.Dir
        /\ \A a \in Actions : applyTurn(game, a) \in Directions \ {Opposite(game.Dir)}
        /\ (Stepped /\ prev.Alive) => game.Dir # Opposite(prev.Dir)

C7_Witness ==
    Stepped /\ prev.Alive /\ prev.Dir = DirUp /\ act = ActionLeft /\ game.Dir = DirLeft

\* C8: Step(Straight) with the fruit directly ahead eats it: FruitsEaten + 1,
\* TicksNoFruit = 0, the body is the old fruit cell followed by the old body.
C8_FruitAhead ==
    (Stepped /\ prev.Alive /\ prev.FruitEnabled /\ act = ActionStraight
             /\ prev.Fruit = moveInDirection(prev.Snake[1], prev.Dir)) =>
        /\ game.FruitsEaten = prev.FruitsEaten + 1
        /\ game.TicksNoFruit = 0
        /\ Len(game.Snake) = Len(prev.Snake) + 1
        /\ game.Snake[1] = prev.Fruit
        /\ TailCell(game) = TailCell(prev)

C8_Witness ==
    Stepped /\ prev.Alive /\ prev.FruitEnabled /\ act = ActionStraight
            /\ prev.Fruit = moveInDirection(prev.Snake[1], prev.Dir)
            /\ prev.TicksNoFruit >= 1 /\ Len(prev.Snake) >= 2
            /\ game.FruitsEaten = prev.FruitsEaten + 1

\* C9: Alive is false exactly when DeathReason is set; a terminal game stays
\* terminal and keeps its DeathReason.
C9_TerminalOnce ==
    /\ game.Alive <=> game.DeathReason = DeathNone
    /\ Stepped => (prev.Alive <=> prev.DeathReason = DeathNone)
    /\ (Stepped /\ ~prev.Alive) => (~game.Alive /\ game.DeathReason = prev.DeathReason)

C9_Witness ==
    Stepped /\ ~prev.Alive /\ ~game.Alive /\ game.DeathReason = DeathTimeout

\* C10: the scripted policy on the wall track never dies by wall or self and
\* ends with cause timeout at Tick = 200.
C10_ScriptedSurvives ==
    /\ game.DeathReason \notin {DeathWall, DeathSelf}
    /\ game.Tick <= WallTrackTickCap
    /\ ~game.Alive => (game.DeathReason = DeathTimeout /\ game.Tick = WallTrackTickCap)

C10_Witness ==
    ~game.Alive /\ game.DeathReason = DeathTimeout /\ game.Tick = WallTrackTickCap
        /\ Stats(game, seed).Ticks = WallTrackTickCap

\* C20: Tick counts the calls of Step made on an alive game (0 at
\* construction, one more after each), never exceeds TickCap, and is below
\* TickCap while the game is alive: the game is terminal after at most
\* TickCap calls of Step, whatever the actions.
C20_EpisodeTerminates ==
    /\ game.Tick <= game.TickCap
    /\ game.Alive => game.Tick < game.TickCap
    /\ ~Stepped => game.Tick = 0
    /\ (Stepped /\ prev.Alive) => game.Tick = prev.Tick + 1

C20_Witness ==
    Stepped /\ prev.Alive /\ prev.Tick = prev.TickCap - 1 /\ prev.TickCap > 1
            /\ ~game.Alive /\ game.Tick = game.TickCap

\* C18: in mode fruit the score is fruitReward*fruits + survivalW*min(ticks,
\* survivalCap) + progressW*progressSum, less 300 for cause wall or self and
\* less 150 for cause stall or timeout; {ticks 150, fruits 2, wall, 12.5}
\* under {5000, 2, cap 40, 10} scores 9905.
C18_FruitFitness ==
    (pc = "scored" /\ cfg.Fitness.Mode = "fruit") =>
        LET f == cfg.Fitness
            capped == IF stats.Ticks <= f.SurvivalCap THEN stats.Ticks ELSE f.SurvivalCap
            base == (f.FruitReward * stats.Fruits) + (f.SurvivalW * capped)
                    + ((f.ProgressW * stats.ProgressSum) \div 100)
        IN  /\ stats.Death \in {DeathWall, DeathSelf} => stats.Score = base - 30000
            /\ stats.Death \in {DeathStall, DeathTimeout} => stats.Score = base - 15000
            /\ stats.Death = DeathNone => stats.Score = base
            /\ (/\ f = DefaultFitness("fruit")
                /\ stats.Ticks = 150 /\ stats.Fruits = 2
                /\ stats.Death = DeathWall /\ stats.ProgressSum = 1250)
               => stats.Score = 990500

C18_Witness ==
    /\ pc = "scored" /\ cfg.Fitness = DefaultFitness("fruit")
    /\ stats.Ticks = 150 /\ stats.Fruits = 2 /\ stats.Death = DeathWall
    /\ stats.ProgressSum = 1250 /\ stats.Score = 990500

\* C19: playing all recorded actions of a replay made by EvaluateWithReplay
\* on the fresh game of Playback yields a terminal game whose Fruits, Ticks,
\* ProgressSum and Death equal the replay's FinalStats, and the number of
\* recorded actions equals FinalStats.Ticks.
C19_ReplayFidelity ==
    /\ pc \in {"recorded", "playback", "played", "partial"} =>
           Len(replay.Actions) = replay.FinalStats.Ticks
    /\ pc = "played" =>
           /\ ~played.Alive
           /\ played.FruitsEaten = replay.FinalStats.Fruits
           /\ played.Tick = replay.FinalStats.Ticks
           /\ played.ProgressSum = replay.FinalStats.ProgressSum
           /\ played.DeathReason = replay.FinalStats.Death

C19_Witness ==
    /\ pc = "played" /\ ~played.Alive /\ played.rng # game.rng
    /\ Len(replay.Actions) >= 3 /\ replay.FinalStats.Fruits >= 1
    /\ played.FruitsEaten = replay.FinalStats.Fruits
    /\ replay.FinalStats.ProgressSum > 0

\* C17: a genome whose length differs from the network's genome size is
\* rejected before any episode is run: once the game and the network are
\* built and the episode runs, the loaded genome has exactly the network's
\* size and the weights are the genome.
C17_LengthMismatchRejected ==
    pc = "play" =>
        /\ Len(champion) = GenomeSize(mlps[1])
        /\ mlps[1].Weights = champion

----------------------------------------------------------------------------
(* Claims about the training loop, checked under SpecTrain.                *)

inPass == pc \in {"pass1", "pass2"}

candidates == Elems(arrays, main.candidates)

\* C11: during a pass no agent is handed to two goroutines of the batch, and
\* a step of the pass changes no genome, no array of agents and no agent
\* other than the one of the goroutine that stores its result, of which it
\* leaves the Genome field alone
C11_WorkerIsolation ==
    /\ [](\A j, k \in 1..Len(workers) : workers[j].agent = workers[k].agent => j = k)
    /\ [][inPass =>
            /\ genomes' = genomes
            /\ arrays' = arrays
            /\ main'.Agents = main.Agents
            /\ DOMAIN agents' = DOMAIN agents
            /\ \A a \in DOMAIN agents :
                   agents'[a] # agents[a] =>
                       /\ agents'[a].Genome = agents[a].Genome
                       /\ \E k \in 1..Len(workers) :
                              /\ workers[k].agent = a
                              /\ workers[k].pc = "store"
                              /\ workers'[k].pc = "done"]_vars

\* two goroutines are about to store their results at the same time, after
\* a third one has stored its own
C11_Witness ==
    /\ inPass
    /\ \E j, k, d \in 1..Len(workers) :
           /\ j # k
           /\ workers[j].pc = "store"
           /\ workers[k].pc = "store"
           /\ workers[d].pc = "done"
           /\ agents[workers[d].agent].Stats.Ticks > 0

\* the goroutines of the batch that were handed agent a
workersOf(a) == {k \in 1..Len(workers) : workers[k].agent = a}

\* C12: when the orchestrator is outside a pass every goroutine of the last
\* pass is done; when the single-seed pass has returned every agent of the
\* population was evaluated by exactly one goroutine, once, with the
\* generation's seed, and holds those stats with Fitness = Stats.Score; when
\* the multi-seed pass has returned every candidate was evaluated by exactly
\* one goroutine over all the seeds and holds AggStats and RobustScore
C12_PassIsBarrier ==
    /\ ~inPass => \A k \in 1..Len(workers) : workers[k].pc = "done"
    /\ pc = "sort" =>
           \A i \in 1..Len(population) :
               LET a == population[i]
               IN  /\ Cardinality(workersOf(a)) = 1
                   /\ \A k \in workersOf(a) :
                          /\ workers[k].seeds = <<main.genSeed>>
                          /\ Len(workers[k].episodes) = 1
                          /\ agents[a].Stats = workers[k].episodes[1]
                   /\ agents[a].Stats.Seed = main.genSeed
                   /\ agents[a].Stats.Ticks > 0
                   /\ agents[a].Fitness = agents[a].Stats.Score
    /\ pc = "best" =>
           \A i \in 1..Len(candidates) :
               LET a == candidates[i]
               IN  /\ Cardinality(workersOf(a)) = 1
                   /\ \A k \in workersOf(a) :
                          /\ Len(workers[k].episodes) = cfg.Eval.MultiseedRuns
                          /\ agents[a].AggStats = Aggregate(workers[k].episodes)
                   /\ agents[a].AggStats.NumEpisodes = cfg.Eval.MultiseedRuns
                   /\ agents[a].RobustScore =
                          RobustnessScore(agents[a].AggStats, cfg.Eval.RobustnessLambda)

\* the multi-seed pass of several candidates has returned with more than one
\* worker
C12_Witness ==
    /\ pc = "best"
    /\ Workers(cfg) >= 2
    /\ Len(candidates) >= 2
    /\ \E i \in 1..Len(candidates) : agents[candidates[i]].AggStats.ScoreStd > 0

\* C13: the results a pass stores are those of the evaluations run alone on
\* the agent's genome with the pass's seeds, whatever the interleaving of
\* the goroutines and the number of workers: during a pass and when it has
\* returned, a goroutine that is done has left in its agent the stats of
\* EvaluateAgent with the generation's seed (single-seed pass) or the
\* aggregate of EvaluateMultiSeed (multi-seed pass)
C13_SchedulingIndependence ==
    \A k \in 1..Len(workers) :
        LET a == workers[k].agent
            genome == genomes[agents[a].Genome]
        IN  (workers[k].pc = "done" /\ pc \in {"pass1", "sort", "pass2", "best"}) =>
                IF pc \in {"pass1", "sort"}
                THEN LET alone == EvaluateAgent(cfg, genome, main.genSeed)
                     IN  /\ agents[a].Stats = alone
                         /\ agents[a].Fitness = alone.Score
                ELSE LET alone == EvaluateMultiSeed(cfg, genome, cfg.Eval.MultiseedBaseSeed,
                                                    cfg.Eval.MultiseedRuns)
                     IN  /\ agents[a].AggStats = alone
                         /\ agents[a].RobustScore =
                                RobustnessScore(alone, cfg.Eval.RobustnessLambda)

\* two goroutines evaluating agents of different genomes have both built
\* their networks and one of them has not played yet, while a third has
\* stored a result
C13_Witness ==
    /\ inPass
    /\ \E j, k, d \in 1..Len(workers) :
           /\ workers[j].pc \in {"run", "store"}
           /\ workers[k].pc = "run"
           /\ j < k
           /\ genomes[agents[workers[j].agent].Genome] # genomes[agents[workers[k].agent].Genome]
           /\ workers[d].pc = "done"
           /\ agents[workers[d].agent].Stats.Ticks > 0

\* C14: the population always holds GA.Population agents, none of them nil
\* and no agent twice; the agents createNextGeneration returns are new ones,
\* copies of evaluated agents in the first GA.Elites slots and offspring,
\* not yet evaluated, in the others
C14_PopulationSize ==
    /\ main.Agents.len = cfg.GA.Population
    /\ Len(population) = cfg.GA.Population
    /\ \A i \in 1..Len(population) : population[i] \in DOMAIN agents
    /\ (pc = "loop" /\ main.gen > 1) =>
           \A i \in 1..Len(population) :
               /\ \A j \in 1..Len(population) : population[i] = population[j] => i = j
               /\ \A j \in 1..Len(main.evaluated) : population[i] # main.evaluated[j]
               /\ population[i] # main.bestEver
               /\ IF i <= cfg.GA.Elites
                  THEN agents[population[i]].Stats.Ticks > 0
                  ELSE agents[population[i]].Stats = ZeroStats

\* createNextGeneration has returned the population of the second generation
C14_Witness ==
    /\ pc = "loop"
    /\ main.gen = 2
    /\ main.gen <= main.generations
    /\ Len(population) = cfg.GA.Population
    /\ agents[population[1]].Stats.Ticks > 0

\* the number of agents the single-seed pass evaluated with a fitness
\* greater than that of agent o
fitterThan(o) ==
    Cardinality({j \in 1..Len(main.evaluated) :
                    agents[main.evaluated[j]].Fitness > agents[o].Fitness})

\* the ways to pair the elite slots with different agents of the population
\* the single-seed pass evaluated
ElitePairings ==
    {f \in [1..cfg.GA.Elites -> 1..Len(main.evaluated)] :
        \A i, j \in 1..cfg.GA.Elites : f[i] = f[j] => i = j}

\* C15: when createNextGeneration has returned, the first GA.Elites agents
\* are copies of GA.Elites different agents of the population as the
\* single-seed pass evaluated it, the i-th of them having fewer than i
\* agents fitter than it; each copy has a genome array of its own, equal
\* gene for gene to the original's, and the original's fitness
C15_Elitism ==
    (pc = "loop" /\ main.gen > 1) =>
        \E f \in ElitePairings :
            \A i \in 1..cfg.GA.Elites :
                LET elite == agents[population[i]]
                    o == main.evaluated[f[i]]
                IN  /\ fitterThan(o) < i
                    /\ elite.Genome # agents[o].Genome
                    /\ genomes[elite.Genome] = genomes[agents[o].Genome]
                    /\ elite.Fitness = agents[o].Fitness

\* C16: no two agents have the same genome array, and no step changes a
\* gene of a genome array that existed before the step: the mutation and
\* the reset of an offspring write only into arrays made in the same call
\* of createNextGeneration
C16_NoGenomeAliasing ==
    /\ [](\A a, b \in DOMAIN agents :
              agents[a].Genome = agents[b].Genome => a = b)
    /\ [][\A g \in DOMAIN genomes : genomes'[g] = genomes[g]]_vars

\* createNextGeneration has returned an offspring copied from an AvoidWall
\* parent and mutated in gene 7, while the best-ever agent and an elite
\* still have the genes of AvoidWall
C16_Witness ==
    /\ pc = "loop"
    /\ main.gen > 1
    /\ main.bestEver # 0
    /\ genomes[agents[main.bestEver].Genome] = AvoidWall
    /\ genomes[agents[population[1]].Genome] = AvoidWall
    /\ genomes[agents[population[cfg.GA.Population]].Genome] =
           [AvoidWall EXCEPT ![7] = Float64(1)]

----------------------------------------------------------------------------
(* Further properties of Step, stated over the last call.                  *)

\* the target cell of the last call is one of the body cells before the
\* tail of the game it was made on
TargetInBody ==
    \E i \in 1..(Len(prev.Snake) - 1) : prev.Snake[i] = Target(prev, act)

\* the last call was made on an alive game and ended it by wall or self
\* collision, or did not
Collided == ~InGrid(prev, Target(prev, act)) \/ TargetInBody

\* C21: a step made on an alive game ends with cause wall when the target
\* cell is outside the grid, else with cause self when the target is a body
\* cell other than the tail; else with cause stall when TicksNoFruit has
\* reached the stall window after the move, and only otherwise with cause
\* timeout when Tick has reached the tick cap; else the game stays alive
C21_TerminalOrder ==
    (Stepped /\ prev.Alive) =>
        game.DeathReason =
            IF ~InGrid(prev, Target(prev, act)) THEN DeathWall
            ELSE IF TargetInBody THEN DeathSelf
            ELSE IF game.TicksNoFruit >= game.StallWindow THEN DeathStall
            ELSE IF game.Tick >= game.TickCap THEN DeathTimeout
            ELSE DeathNone

\* the stall window and the tick cap are reached by the same step
C21_Witness ==
    /\ Stepped /\ prev.Alive /\ ~Collided
    /\ game.TicksNoFruit >= game.StallWindow
    /\ game.Tick >= game.TickCap
    /\ game.DeathReason = DeathStall

\* C22: a step that ends the game by wall or self collision leaves the
\* body, the fruit, FruitsEaten, ProgressSum, the progress baseline and the
\* random source as they were, adds 1 to Tick and to TicksNoFruit and sets
\* the heading to the turned one; Stats counts the fatal step in Ticks
C22_FatalStepFrame ==
    (Stepped /\ prev.Alive /\ game.DeathReason \in {DeathWall, DeathSelf}) =>
        /\ game.Snake = prev.Snake
        /\ game.Fruit = prev.Fruit
        /\ game.FruitsEaten = prev.FruitsEaten
        /\ game.ProgressSum = prev.ProgressSum
        /\ game.LastFruitDist = prev.LastFruitDist
        /\ rngHeap = last[1].rngBefore
        /\ game.Tick = prev.Tick + 1
        /\ game.TicksNoFruit = prev.TicksNoFruit + 1
        /\ game.Dir = applyTurn(prev, act)
        /\ Stats(game, seed).Ticks = prev.Tick + 1

\* a turn into the snake's own body, after a fruit was eaten
C22_Witness ==
    /\ Stepped /\ prev.Alive /\ game.DeathReason = DeathSelf
    /\ act # ActionStraight /\ game.Dir # prev.Dir
    /\ prev.FruitsEaten >= 1 /\ prev.Tick >= 1
    /\ game.Snake = prev.Snake /\ game.Tick = prev.Tick + 1

\* C23: while a fruit-enabled game is alive the fruit lies inside the grid
\* on a cell no body cell occupies; a step advances the random source by
\* exactly one draw when it eats a fruit and not at all otherwise
C23_FruitPlacement ==
    /\ (game.Alive /\ game.FruitEnabled) =>
           /\ InGrid(game, game.Fruit)
           /\ ~Occupied(game, game.Fruit)
    /\ (Stepped /\ prev.Alive) =>
           rngHeap = IF game.FruitsEaten > prev.FruitsEaten
                     THEN [last[1].rngBefore EXCEPT ![prev.rng] = RngNext(@)]
                     ELSE last[1].rngBefore

\* the Manhattan distance of two cells, as a float64
Manhattan(p, q) == Float64(Abs(p.X - q.X) + Abs(p.Y - q.Y))

\* C24: ProgressSum never decreases; a step of a fruit-enabled game that
\* neither collides nor eats adds to it the baseline less the new Manhattan
\* distance from head to fruit when that is positive and nothing otherwise,
\* and sets the baseline to the new distance; a step that eats leaves
\* ProgressSum alone and sets the baseline to the distance from the new
\* head to the new fruit; with fruit disabled ProgressSum is 0
C24_ProgressAccumulation ==
    /\ ~game.FruitEnabled => game.ProgressSum = 0
    /\ Stepped => game.ProgressSum >= prev.ProgressSum
    /\ (Stepped /\ prev.Alive /\ prev.FruitEnabled /\ ~Collided) =>
           LET newDist == Manhattan(game.Snake[1], game.Fruit)
               improvement == prev.LastFruitDist - newDist
           IN  /\ game.LastFruitDist = newDist
               /\ game.ProgressSum =
                      IF game.FruitsEaten > prev.FruitsEaten THEN prev.ProgressSum
                      ELSE IF improvement > 0 THEN prev.ProgressSum + improvement
                      ELSE prev.ProgressSum

\* after a fruit was eaten and progress was made toward the next one, a
\* step moves away from the fruit
C24_Witness ==
    /\ Stepped /\ prev.Alive /\ prev.FruitEnabled /\ ~Collided
    /\ prev.FruitsEaten >= 1 /\ prev.ProgressSum > 0
    /\ game.FruitsEaten = prev.FruitsEaten
    /\ game.LastFruitDist > prev.LastFruitDist
    /\ game.ProgressSum = prev.ProgressSum
    /\ game.Alive

\* how many cells the fruit of g lies from the head in the direction dir
FruitOffsetAlong(g, dir) ==
    LET unit == moveInDirection(Point(0, 0), dir)
    IN  ((g.Fruit.X - g.Snake[1].X) * unit.X) + ((g.Fruit.Y - g.Snake[1].Y) * unit.Y)

\* C25: with fruit enabled the second component of FruitDirection is
\* positive exactly when the fruit lies ahead along the heading, and the
\* first is positive exactly when the fruit lies on the side to which
\* TurnRight turns the heading; with fruit disabled it is (0, 0)
C25_FruitDirectionFrame ==
    IF game.FruitEnabled
    THEN /\ FruitDirection(game)[2] > 0 <=> FruitOffsetAlong(game, game.Dir) > 0
         /\ FruitDirection(game)[1] > 0 <=>
                FruitOffsetAlong(game, applyTurn(game, ActionRight)) > 0
    ELSE FruitDirection(game) = <<0, 0>>

----------------------------------------------------------------------------
(* Further claims about the training loop, checked under SpecTrain.        *)

\* the number of candidates taken from the sorted population
topK == Min(cfg.Eval.TopKMultiseed, cfg.GA.Population)

firstOfBestScore(i) ==
    /\ \A j \in 1..Len(candidates) :
           agents[candidates[j]].RobustScore <= agents[candidates[i]].RobustScore
    /\ \A j \in 1..(i - 1) :
           agents[candidates[j]].RobustScore < agents[candidates[i]].RobustScore

\* C27: the step after the multi-seed pass replaces bestEver if and only if
\* there was none or the greatest robustness score of the candidates is
\* strictly greater than bestEver's; the replacement is a new agent with a
\* new genome array, whose genes and other fields are those of the first
\* candidate of greatest score; otherwise bestEver and every agent are
\* left as they were
C27_BestEverUpdate ==
    [][pc = "best" =>
          \E i \in 1..Len(candidates) :
              LET c == candidates[i]
                  new == main'.bestEver
              IN  /\ firstOfBestScore(i)
                  /\ IF main.bestEver = 0
                        \/ agents[c].RobustScore > agents[main.bestEver].RobustScore
                     THEN /\ new \in DOMAIN agents' \ DOMAIN agents
                          /\ agents'[new].Genome \in DOMAIN genomes' \ DOMAIN genomes
                          /\ genomes'[agents'[new].Genome] = genomes[agents[c].Genome]
                          /\ agents'[new] = [agents[c] EXCEPT !.Genome = agents'[new].Genome]
                          /\ \A a \in DOMAIN agents : agents'[a] = agents[a]
                     ELSE /\ new = main.bestEver
                          /\ agents' = agents
                          /\ genomes' = genomes]_vars

\* in a later generation the best candidate only ties with the best-ever
\* agent, which is kept
C27_Witness ==
    /\ pc = "nextgen"
    /\ main.gen >= 2
    /\ Len(candidates) = topK + 1
    /\ main.bestEver = candidates[topK + 1]
    /\ agents[candidates[1]].RobustScore = agents[main.bestEver].RobustScore
    /\ agents[main.bestEver].AggStats.NumEpisodes = cfg.Eval.MultiseedRuns

\* C28: when the multi-seed pass has returned, the goroutine of each
\* candidate has run MultiseedRuns episodes, the i-th with the seed
\* MultiseedBaseSeed + i - 1 on the candidate's genome; the candidate's
\* AggStats has NumEpisodes = MultiseedRuns, death counts that sum to it,
\* the mean of the episodes' scores and the square root of the mean squared
\* deviation from it; RobustScore = ScoreMean - RobustnessLambda * ScoreStd
C28_MultiSeedPass ==
    pc = "best" =>
        \A c \in 1..Len(candidates) :
            \A k \in workersOf(candidates[c]) :
                LET a == agents[candidates[c]]
                    n == cfg.Eval.MultiseedRuns
                    ep == workers[k].episodes
                    scores == [i \in 1..n |-> ep[i].Score]
                    mean == FDivInt(SumOver(scores, n), n)
                    squares == [i \in 1..n |-> FMul(scores[i] - mean, scores[i] - mean)]
                IN  /\ Len(ep) = n
                    /\ \A i \in 1..n :
                           /\ ep[i].Seed = cfg.Eval.MultiseedBaseSeed + (i - 1)
                           /\ ep[i] = EvaluateAgent(cfg, genomes[a.Genome], ep[i].Seed)
                    /\ a.AggStats.NumEpisodes = n
                    /\ SumOver([d \in 1..5 |-> a.AggStats.DeathCounts[d - 1]], 5) = n
                    /\ \A d \in DeathReasons :
                           a.AggStats.DeathCounts[d]
                               = Cardinality({i \in 1..n : ep[i].Death = d})
                    /\ a.AggStats.ScoreMean = mean
                    /\ a.AggStats.ScoreStd = FSqrt(FDivInt(SumOver(squares, n), n))
                    /\ a.RobustScore
                           = a.AggStats.ScoreMean
                             - FMul(cfg.Eval.RobustnessLambda, a.AggStats.ScoreStd)

\* a candidate whose episodes under the two seeds score differently
C28_Witness ==
    /\ pc = "best"
    /\ \E c \in 1..Len(candidates) :
           LET a == agents[candidates[c]]
           IN  /\ a.AggStats.NumEpisodes = cfg.Eval.MultiseedRuns
               /\ a.AggStats.ScoreStd > 0
               /\ a.RobustScore < a.AggStats.ScoreMean

----------------------------------------------------------------------------
(* Claims about selection and mutation, checked under SpecOffspring.       *)

\* the calls the given TournamentSelect made on the random source
drawsOf(call) == SelectSeq(last, LAMBDA e : e.by = "TournamentSelect" /\ e.i = call)

\* the calls MutateWithReset made for gene i, read from the log
mutationCalls(log, i) == SelectSeq(log, LAMBDA e : e.by = "MutateWithReset" /\ e.i = i)

selected == pc \in {"crossover", "mutate", "reset", "done"}

\* C29: the pool is the first SelectionPool agents of the population sorted
\* by descending fitness; each tournament makes exactly TournamentK draws,
\* each of an index of the whole pool, and returns the first drawn agent
\* among the drawn agents of greatest fitness
C29_TournamentSelection ==
    selected =>
        /\ Len(pool) = Min(cfg.GA.SelectionPool, cfg.GA.Population)
        /\ \A i \in 1..Len(pool) : pool[i] = population[i]
        /\ {population[i] : i \in 1..Len(population)} = 1..cfg.GA.Population
        /\ \A i \in 1..(Len(population) - 1) :
               agents[population[i]].Fitness >= agents[population[i + 1]].Fitness
        /\ \A call \in 1..2 :
               LET d == drawsOf(call)
                   parent == IF call = 1 THEN main.p1 ELSE main.p2
                   drawn(j) == pool[d[j].v + 1]
               IN  /\ Len(d) = cfg.GA.TournamentK
                   /\ \A j \in 1..Len(d) :
                          d[j].fn = "Intn" /\ d[j].n = Len(pool) /\ d[j].v \in 0..(Len(pool) - 1)
                   /\ \E j \in 1..Len(d) :
                          /\ parent = drawn(j)
                          /\ \A m \in 1..Len(d) :
                                 agents[drawn(m)].Fitness <= agents[parent].Fitness
                          /\ \A m \in 1..(j - 1) :
                                 agents[drawn(m)].Fitness < agents[parent].Fitness

\* the place of a call in an offspring slot: the first tournament, the
\* second, the crossover, the mutation of gene 1, of gene 2, ...
slotOrder(e) ==
    IF e.by = "TournamentSelect" THEN e.i
    ELSE IF e.by \in {"CreateChild", "UniformCrossover"} THEN 3
    ELSE 3 + e.i

\* C30: MutateWithReset draws for the genes in index order; for each gene
\* one draw is compared with ResetMutationP and, if below it, one more draw
\* replaces the gene and nothing else is drawn for that gene; otherwise a
\* second draw is compared with MutationRate and, if below it, one more
\* draw is added to the gene as noise; otherwise the gene is unchanged; the
\* genome keeps its length.  In the slot the draws of the first parent's
\* tournament come first, then those of the second parent's, then those of
\* the crossover, then those of the mutation
C30_MutationDraws ==
    /\ [](pc = "reset" =>
             /\ \A j \in 1..(Len(last) - 1) : slotOrder(last[j]) <= slotOrder(last[j + 1])
             /\ \A k \in 1..(3 + Len(genomes[agents[main.child].Genome])) :
                    \E j \in 1..Len(last) : slotOrder(last[j]) = k)
    /\ [][pc = "mutate" =>
             LET before == genomes[agents[main.child].Genome]
                 after == genomes'[agents[main.child].Genome]
             IN  /\ Len(after) = Len(before)
                 /\ agents' = agents
                 /\ \A i \in 1..Len(before) :
                        LET s == mutationCalls(last', i)
                        IN  /\ Len(s) >= 2
                            /\ s[1].fn = "Float64"
                            /\ IF s[1].v < cfg.GA.ResetMutationP
                               THEN /\ Len(s) = 2
                                    /\ s[2].fn = "NormFloat64"
                                    /\ after[i] = FMul(s[2].v, 50)
                               ELSE /\ s[2].fn = "Float64"
                                    /\ IF s[2].v < cfg.GA.MutationRate
                                       THEN /\ Len(s) = 3
                                            /\ s[3].fn = "NormFloat64"
                                            /\ after[i] = before[i]
                                                   + FMul(s[3].v, cfg.GA.MutationSigma)
                                       ELSE /\ Len(s) = 2
                                            /\ after[i] = before[i]]_vars

\* an offspring made by crossover whose first gene was reset and whose
\* second gene was perturbed
C30_Witness ==
    /\ pc = "reset"
    /\ \E j \in 1..Len(last) : last[j].by = "UniformCrossover"
    /\ Len(mutationCalls(last, 1)) = 2
    /\ mutationCalls(last, 1)[2].fn = "NormFloat64"
    /\ Len(mutationCalls(last, 2)) = 3

\* the agents of the next generation, by slot
newAgents == Elems(arrays, main.newAgents)

\* the calls the fraction reset made on the random source, read from the log
resetCalls(log) == SelectSeq(log, LAMBDA e : e.by = "createNextGeneration")

----------------------------------------------------------------------------
(* Claims about successive generations, checked under SpecTrain.           *)

\* the greatest single-seed fitness among the given agents
bestFitness(as) ==
    CHOOSE x \in {agents[as[i]].Fitness : i \in 1..Len(as)} :
        \A i \in 1..Len(as) : agents[as[i]].Fitness <= x

\* the single-seed pass of a generation after the first returns; until then
\* main.evaluated holds the agents the previous generation's pass evaluated
nextPassReturns == pc = "pass1" /\ pc' = "sort" /\ main.gen > 1

\* C32 as stated: on every track, when the single-seed pass of generation
\* g+1 returns, the greatest fitness in the population is at least the
\* greatest fitness of generation g
C32_NoRegressionAnyTrack ==
    [][(nextPassReturns /\ cfg.GA.Elites >= 1) =>
           bestFitness(population) >= bestFitness(main.evaluated)]_vars

\* C32, amended: with fruit disabled, when the single-seed pass of
\* generation g+1 returns, the greatest fitness in the population is at
\* least the greatest fitness of generation g
C32_NoRegression ==
    [][(nextPassReturns /\ cfg.GA.Elites >= 1 /\ ~cfg.Env.FruitEnabled) =>
           bestFitness(population) >= bestFitness(main.evaluated)]_vars

\* the second generation of a run without fruit has been scored and its
\* best agent has the fitness of the first generation's best
C32_Witness ==
    /\ pc = "sort" /\ main.gen = 2
    /\ ~cfg.Env.FruitEnabled
    /\ cfg.GA.Elites >= 1
    /\ bestFitness(population) = bestFitness(<<1, 2, 3>>)
    /\ \E i \in 1..3 : agents[i].Fitness < bestFitness(population)

----------------------------------------------------------------------------
(* A further claim about the fitness functions, checked under SpecFitness. *)

\* C33: in mode self the score is the tick count less a penalty: SelfPenalty
\* for death by self, exactly a third of WallPenalty for death by wall,
\* StallPenalty for death by stall, nothing for a timeout
C33_SelfFitness ==
    (pc = "scored" /\ cfg.Fitness.Mode = "self") =>
        LET penalty == Float64(stats.Ticks) - stats.Score
        IN  /\ stats.Death = DeathSelf => penalty = cfg.Fitness.SelfPenalty
            /\ stats.Death = DeathWall => 3 * penalty = cfg.Fitness.WallPenalty
            /\ stats.Death = DeathStall => penalty = cfg.Fitness.StallPenalty
            /\ stats.Death = DeathTimeout => penalty = 0

----------------------------------------------------------------------------
(* A claim about the worker pool, checked under SpecTrainFair.             *)

\* the goroutines of the batch whose evaluation has not ended
inProgress == {k \in 1..Len(workers) : workers[k].pc # "done"}

\* C34: during a pass at most `workers` evaluations are in progress (the CPU
\* count when the configured count is <= 0); the slots held are those of the
\* evaluations in progress, so a slot is released when its evaluation ends
\* and none is held outside a pass; and every pass returns
C34_BoundedParallelism ==
    /\ [](LET limit == IF cfg.Eval.Workers <= 0 THEN cfg.NumCPU ELSE cfg.Eval.Workers
          IN  /\ Cardinality(inProgress) <= limit
              /\ main.sem = Cardinality(inProgress)
              /\ main.wg = Cardinality(inProgress)
              /\ ~inPass => main.sem = 0
              /\ Len(workers) <= MaxBatch)
    /\ (inPass ~> ~inPass)

\* with no configured worker count and two CPUs, two evaluations are in
\* progress and the dispatcher waits for a slot for the third agent
C34_Witness ==
    /\ inPass
    /\ cfg.Eval.Workers <= 0
    /\ Cardinality(inProgress) = cfg.NumCPU
    /\ main.sem = cfg.NumCPU
    /\ main.next <= main.batch.len

----------------------------------------------------------------------------
(* A claim about the danger queries, checked under Spec.                  *)

\* the game that Step(a) makes of the current one
after(a) == Step(game, rngHeap, a).g

\* C35: in every alive state and for each relative action a, Step(a) ends the
\* episode with cause wall exactly when IsDangerWall(a), with cause self
\* exactly when IsDangerBody(a) and not IsDangerWall(a), and so passes the
\* collision checks exactly when not IsDanger(a)
C35_DangerPredictsStep ==
    game.Alive =>
        \A a \in Actions :
            /\ (~after(a).Alive /\ after(a).DeathReason = DeathWall) <=> IsDangerWall(game, a)
            /\ (~after(a).Alive /\ after(a).DeathReason = DeathSelf)
                   <=> (IsDangerBody(game, a) /\ ~IsDangerWall(game, a))
            /\ after(a).DeathReason \notin {DeathWall, DeathSelf} <=> ~IsDanger(game, a)

\* an alive game in which one action runs into the body, another into the
\* wall and the third is free
C35_Witness ==
    /\ game.Alive
    /\ \E a, b, c \in Actions :
           /\ IsDangerBody(game, a) /\ ~IsDangerWall(game, a)
           /\ after(a).DeathReason = DeathSelf
           /\ IsDangerWall(game, b) /\ after(b).DeathReason = DeathWall
           /\ ~IsDanger(game, c) /\ after(c).DeathReason \notin {DeathWall, DeathSelf}

----------------------------------------------------------------------------
(* A claim about the cells of the body, checked under Spec.               *)

\* C36: in every reachable state, from creation on, every cell of the body
\* lies inside the grid, and so the body is never longer than Width * Height
C36_BodyInsideGrid ==
    /\ \A i \in 1..Len(game.Snake) : ~OutOfGrid(game, game.Snake[i])
    /\ Len(game.Snake) <= game.Width * game.Height

----------------------------------------------------------------------------
(* A claim about episodes without fruit, checked under SpecSeeds.         *)

\* the tick by which an episode without fruit has ended
lastTick(g) == Min(g.StallWindow, g.TickCap)

\* C37: with fruit disabled TicksNoFruit equals Tick, the episode is over at
\* tick min(stallWindow, tickCap) at the latest, ticks, cause and progress do
\* not depend on the seed, and with stallWindow <= tickCap no episode ends
\* with cause timeout: one without collision ends with cause stall at tick
\* stallWindow
C37_FruitlessEpisode ==
    /\ \A k \in 1..Len(games) :
           LET g == games[k]
           IN  ~g.FruitEnabled =>
                   /\ g.TicksNoFruit = g.Tick
                   /\ g.Tick <= lastTick(g)
                   /\ g.Tick = lastTick(g) => ~g.Alive
                   /\ g.StallWindow <= g.TickCap =>
                          /\ g.DeathReason # DeathTimeout
                          /\ (~g.Alive /\ g.DeathReason \notin {DeathWall, DeathSelf})
                                 => (g.DeathReason = DeathStall /\ g.Tick = g.StallWindow)
    /\ (~game.FruitEnabled /\ ~twin.FruitEnabled) =>
           /\ game.Tick = twin.Tick
           /\ game.Alive = twin.Alive
           /\ game.DeathReason = twin.DeathReason
           /\ game.ProgressSum = twin.ProgressSum

\* two games of different seeds that avoided every collision and ended with
\* cause stall at tick stallWindow, which is also the tick cap
C37_Witness ==
    /\ ~game.FruitEnabled
    /\ game.StallWindow = game.TickCap
    /\ rngHeap[game.rng] # rngHeap[twin.rng]
    /\ ~game.Alive /\ game.DeathReason = DeathStall /\ game.Tick = game.StallWindow
    /\ ~twin.Alive /\ twin.DeathReason = DeathStall

----------------------------------------------------------------------------
(* Claims about the population between the two passes, checked under      *)
(* SpecTrain.                                                             *)

\* C38: forming the candidate set leaves in the population slice the agents
\* the sort by fitness put there, in that order, also when the best-ever
\* agent is added to the candidates; and the best-ever agent is never an
\* element of the population
C38_CandidatesLeavePopulation ==
    /\ [][pc = "sort" => population' \in SortedOrders(mem, main.Agents)]_vars
    /\ [](\A i \in 1..Len(population) : population[i] # main.bestEver)

\* C39: when the next generation is built, every agent of the population
\* carries the Stats and Fitness of this generation's single-seed pass: its
\* Stats.Seed is the generation's genSeed and its Fitness the score of those
\* Stats; so does the agent that Best returns
C39_SelectionUsesThisGeneration ==
    pc = "nextgen" =>
        /\ \A i \in 1..Len(population) :
               /\ agents[population[i]].Stats.Seed = main.genSeed
               /\ agents[population[i]].Fitness = agents[population[i]].Stats.Score
        /\ agents[Best(mem, main.Agents)].Stats.Seed = main.genSeed

----------------------------------------------------------------------------
(* A claim about the best-ever agent, checked under SpecTrain.            *)

\* the genes and the robustness score of the stored best-ever agent
bestEverGenes == genomes[agents[main.bestEver].Genome]
bestEverScore == agents[main.bestEver].RobustScore

\* C40: once there is a best-ever agent, no step lowers its robustness score
\* (so no generation does), its genes change only in a step that strictly
\* raises the score, and re-scoring the stored agent with the multi-seed seed
\* list leaves its score as it was
C40_BestEverMonotone ==
    [][main.bestEver # 0 =>
          /\ bestEverScore' >= bestEverScore
          /\ bestEverGenes' # bestEverGenes => bestEverScore' > bestEverScore
          /\ main.bestEver' = main.bestEver => bestEverScore' = bestEverScore]_vars

\* the second generation has re-scored the best-ever agent of the first among
\* its candidates and replaced it by a clone of a candidate
C40_Witness ==
    /\ pc = "nextgen"
    /\ main.gen = 2
    /\ main.bestEver # 0
    /\ \A i \in 1..main.candidates.len :
           Elems(arrays, main.candidates)[i] # main.bestEver
    /\ \E i \in 1..main.candidates.len :
           /\ agents[Elems(arrays, main.candidates)[i]].RobustScore < bestEverScore
           /\ agents[Elems(arrays, main.candidates)[i]].AggStats.NumEpisodes > 0

====
